---- MODULE Spec2Model ----
(***************************************************************************)
(* Model of the typeattack leaderboard scripts (src/scripts):               *)
(*   validate_session.py  canonical form, digest, submission validator     *)
(*   generate_static.py   leaderboard merge / dedup / rank, atomic write   *)
(*   process_queue.py     the batch run over the submission queue          *)
(*   moderate_scores.py   moderation delete and re-rank                    *)
(*                                                                         *)
(* JSON / Python values are tagged records:                                *)
(*   [t |-> "null"]               None / null                              *)
(*   [t |-> "int",   n |-> 5]     int                                      *)
(*   [t |-> "float", n |-> 5]     the float 5.0 (integral floats only)     *)
(*   [t |-> "str",   s |-> <<104, 105>>]   str, as its code points         *)
(*   [t |-> "list",  v |-> <<...>>]        list                            *)
(*   [t |-> "dict",  d |-> [k |-> ...]]    dict; a key bound to Absent is  *)
(*                                         a key the dict does not hold    *)
(* A Python call either returns or raises: Ok(v) / Raise.                  *)
(***************************************************************************)
EXTENDS Integers, Sequences, FiniteSets, TLC

\* ------------------------------------------------------------------------
\* Python values
\* ------------------------------------------------------------------------
Null == [t |-> "null"]
Absent == [t |-> "absent"]
PInt(n) == [t |-> "int", n |-> n]
PFloat(n) == [t |-> "float", n |-> n]
PStr(s) == [t |-> "str", s |-> s]
PList(v) == [t |-> "list", v |-> v]
PDict(d) == [t |-> "dict", d |-> d]

Raise == [exc |-> TRUE]
Ok(v) == [exc |-> FALSE, val |-> v]

\* key in d
Has(obj, k) == /\ k \in DOMAIN obj.d
               /\ obj.d[k].t # "absent"

\* d.get(k)
Get(obj, k) == IF Has(obj, k) THEN obj.d[k] ELSE Null

\* d.get(k, default)
GetDefault(obj, k, dflt) == IF Has(obj, k) THEN obj.d[k] ELSE dflt

\* isinstance(v, (int, float))
IsNumber(v) == v.t \in {"int", "float"}

\* bool(v)
Truthy(v) ==
    CASE v.t = "null" -> FALSE
      [] v.t = "absent" -> FALSE
      [] v.t \in {"int", "float"} -> v.n # 0
      [] v.t = "str" -> Len(v.s) > 0
      [] v.t = "list" -> Len(v.v) > 0
      [] v.t = "dict" -> \E k \in DOMAIN v.d : v.d[k].t # "absent"

RECURSIVE Flatten(_)
Flatten(ss) == IF Len(ss) = 0 THEN <<>> ELSE Head(ss) \o Flatten(Tail(ss))

\* [x for x in s if keep[x]], keep given per position
RECURSIVE FilterSeq(_, _)
FilterSeq(s, keep) ==
    IF Len(s) = 0 THEN <<>>
    ELSE (IF keep[1] THEN <<Head(s)>> ELSE <<>>) \o FilterSeq(Tail(s), Tail(keep))

\* str.lower() on the ASCII range
LowerChar(c) == IF c >= 65 /\ c <= 90 THEN c + 32 ELSE c
Lower(s) == [i \in 1..Len(s) |-> LowerChar(s[i])]

\* str.upper() on the ASCII range
UpperChar(c) == IF c >= 97 /\ c <= 122 THEN c - 32 ELSE c
Upper(s) == [i \in 1..Len(s) |-> UpperChar(s[i])]

\* str < str: lexicographic by code point
RECURSIVE StrLt(_, _)
StrLt(a, b) ==
    IF Len(b) = 0 THEN FALSE
    ELSE IF Len(a) = 0 THEN TRUE
    ELSE IF Head(a) # Head(b) THEN Head(a) < Head(b)
    ELSE StrLt(Tail(a), Tail(b))

\* a < b raises TypeError (str against number)
Incomparable(a, b) ==
    \/ a.t = "str" /\ b.t # "str"
    \/ a.t # "str" /\ b.t = "str"
    \/ a.t \notin {"str", "int", "float"}
    \/ b.t \notin {"str", "int", "float"}

\* a < b where it is defined
PyLt(a, b) == IF a.t = "str" THEN StrLt(a.s, b.s) ELSE a.n < b.n

\* list.sort / sorted: stable, so x goes after every element not greater than it
RECURSIVE InsertSorted(_, _)
InsertSorted(x, s) ==
    IF Len(s) = 0 THEN <<x>>
    ELSE IF PyLt(x, Head(s)) THEN <<x>> \o s
    ELSE <<Head(s)>> \o InsertSorted(x, Tail(s))

RECURSIVE SortedVals(_)
SortedVals(s) ==
    IF Len(s) = 0 THEN <<>>
    ELSE InsertSorted(s[Len(s)], SortedVals(SubSeq(s, 1, Len(s) - 1)))

\* sorted(xs): TypeError as soon as two elements cannot be compared
sorted(xs) ==
    IF \E i, j \in 1..Len(xs) : i < j /\ Incomparable(xs[i], xs[j])
    THEN Raise
    ELSE Ok(SortedVals(xs))

\* ------------------------------------------------------------------------
\* json.dumps(v, separators=(',', ':'), sort_keys=True), as code points
\* ------------------------------------------------------------------------
RECURSIVE Digits(_)
Digits(n) == IF n < 10 THEN <<48 + n>> ELSE Digits(n \div 10) \o <<48 + (n % 10)>>

IntRepr(n) == IF n < 0 THEN <<45>> \o Digits(0 - n) ELSE Digits(n)

EscapeChar(c) == IF c = 34 THEN <<92, 34>> ELSE IF c = 92 THEN <<92, 92>> ELSE <<c>>

StrRepr(s) == <<34>> \o Flatten([i \in 1..Len(s) |-> EscapeChar(s[i])]) \o <<34>>

\* the keys of the canonical form, in sort_keys order, with their code points
KeyOrder == << "key", "keystrokes", "seed", "stage", "timestamp", "wordIndex", "words" >>

KeyBytes(k) ==
    CASE k = "key" -> <<107, 101, 121>>
      [] k = "keystrokes" -> <<107, 101, 121, 115, 116, 114, 111, 107, 101, 115>>
      [] k = "seed" -> <<115, 101, 101, 100>>
      [] k = "stage" -> <<115, 116, 97, 103, 101>>
      [] k = "timestamp" -> <<116, 105, 109, 101, 115, 116, 97, 109, 112>>
      [] k = "wordIndex" -> <<119, 111, 114, 100, 73, 110, 100, 101, 120>>
      [] k = "words" -> <<119, 111, 114, 100, 115>>

\* a, b, c  ->  a "," b "," c
RECURSIVE JoinComma(_)
JoinComma(parts) ==
    IF Len(parts) = 0 THEN <<>>
    ELSE IF Len(parts) = 1 THEN parts[1]
    ELSE parts[1] \o <<44>> \o JoinComma(Tail(parts))

RECURSIVE dumps(_)
dumps(v) ==
    CASE v.t = "null" -> <<110, 117, 108, 108>>
      [] v.t = "int" -> IntRepr(v.n)
      [] v.t = "float" -> IntRepr(v.n) \o <<46, 48>>
      [] v.t = "str" -> StrRepr(v.s)
      [] v.t = "list" ->
            <<91>> \o JoinComma([i \in 1..Len(v.v) |-> dumps(v.v[i])]) \o <<93>>
      [] v.t = "dict" ->
            LET keys == FilterSeq(KeyOrder, [i \in 1..Len(KeyOrder) |-> Has(v, KeyOrder[i])])
            IN  <<123>>
                \o JoinComma([i \in 1..Len(keys) |->
                       StrRepr(KeyBytes(keys[i])) \o <<58>> \o dumps(v.d[keys[i]])])
                \o <<125>>

\* ------------------------------------------------------------------------
\* hashlib.sha256(data).hexdigest()
\* SHA-256 itself is outside the model.  Its stand-in keeps what the code
\* relies on: a deterministic function of the whole byte string whose result
\* is a fixed-width string of lowercase hex digits (here four of them).
\* ------------------------------------------------------------------------
HashModulus == 65536

\* (a * b) % HashModulus without leaving 32 bits
MulMod(a, b) == ((((a \div 256) * b) % HashModulus) * 256 + (a % 256) * b) % HashModulus

\* For bytes[lo..hi]: h, the polynomial sum of bytes[i] * 131^(hi-i), and
\* p = 131^(hi-lo+1), both modulo HashModulus; computed by halves
RECURSIVE PolyHash(_, _, _)
PolyHash(bytes, lo, hi) ==
    IF lo = hi THEN [h |-> bytes[lo], p |-> 131]
    ELSE LET m == (lo + hi) \div 2
             a == PolyHash(bytes, lo, m)
             b == PolyHash(bytes, m + 1, hi)
         IN  [h |-> (MulMod(a.h, b.p) + b.h) % HashModulus, p |-> MulMod(a.p, b.p)]

HexDigit(n) == IF n < 10 THEN 48 + n ELSE 87 + n

sha256_hexdigest(bytes) ==
    LET h == PolyHash(<<7>> \o bytes, 1, Len(bytes) + 1).h
    IN  << HexDigit(h \div 4096), HexDigit((h \div 256) % 16),
           HexDigit((h \div 16) % 16), HexDigit(h % 16) >>

\* ------------------------------------------------------------------------
\* validate_session.py
\* ------------------------------------------------------------------------
\* The projection of one keystroke (lines 41-45)
KeystrokeProjection(k) ==
    PDict([key |-> Get(k, "key"),
           timestamp |-> Get(k, "timestamp"),
           wordIndex |-> Get(k, "wordIndex")])

\* The canonical form with the stats kept in it
extract_deterministic_data_WithStats(session_data) ==
    IF session_data.t # "dict" THEN Raise
    ELSE
    LET words == GetDefault(session_data, "words", PList(<<>>))
        keystrokes == GetDefault(session_data, "keystrokes", PList(<<>>))
        wordsRaise == /\ words.t = "list"
                      /\ \E i \in 1..Len(words.v) : words.v[i].t # "dict"
        word_texts ==
            LET ws == FilterSeq(words.v,
                        [i \in 1..Len(words.v) |-> Truthy(Get(words.v[i], "text"))])
            IN  [i \in 1..Len(ws) |-> GetDefault(ws[i], "text", PStr(<<>>))]
        sortedWords == IF words.t = "list" THEN sorted(word_texts) ELSE Ok(<<>>)
        ksRaise == /\ keystrokes.t = "list"
                   /\ \E i \in 1..Len(keystrokes.v) : keystrokes.v[i].t # "dict"
        ksPart == IF keystrokes.t = "list"
                  THEN [i \in 1..Len(keystrokes.v) |-> KeystrokeProjection(keystrokes.v[i])]
                  ELSE <<>>
    IN  IF wordsRaise THEN Raise
        ELSE IF sortedWords.exc THEN Raise
        ELSE IF ksRaise THEN Raise
        ELSE Ok(PDict([seed |-> Get(session_data, "seed"),
                       stage |-> Get(session_data, "stage"),
                       words |-> PList(sortedWords.val),
                       keystrokes |-> PList(ksPart),
                       stats |-> Get(session_data, "stats")]))

\* extract_deterministic_data, lines 13-49
extract_deterministic_data(session_data) ==
    IF session_data.t # "dict" THEN Raise
    ELSE
    LET words == GetDefault(session_data, "words", PList(<<>>))
        keystrokes == GetDefault(session_data, "keystrokes", PList(<<>>))
        wordsRaise == /\ words.t = "list"
                      /\ \E i \in 1..Len(words.v) : words.v[i].t # "dict"
        word_texts ==
            LET ws == FilterSeq(words.v,
                        [i \in 1..Len(words.v) |-> Truthy(Get(words.v[i], "text"))])
            IN  [i \in 1..Len(ws) |-> GetDefault(ws[i], "text", PStr(<<>>))]
        sortedWords == IF words.t = "list" THEN sorted(word_texts) ELSE Ok(<<>>)
        ksRaise == /\ keystrokes.t = "list"
                   /\ \E i \in 1..Len(keystrokes.v) : keystrokes.v[i].t # "dict"
        ksPart == IF keystrokes.t = "list"
                  THEN [i \in 1..Len(keystrokes.v) |-> KeystrokeProjection(keystrokes.v[i])]
                  ELSE <<>>
    IN  IF wordsRaise THEN Raise
        ELSE IF sortedWords.exc THEN Raise
        ELSE IF ksRaise THEN Raise
        ELSE Ok(PDict([seed |-> Get(session_data, "seed"),
                       stage |-> Get(session_data, "stage"),
                       words |-> PList(sortedWords.val),
                       keystrokes |-> PList(ksPart)]))

calculate_hash(session_data) ==
    LET deterministic_data == extract_deterministic_data(session_data)
    IN  IF deterministic_data.exc THEN Raise
        ELSE Ok(sha256_hexdigest(dumps(deterministic_data.val)))

\* verify_hash answering True when the digest cannot be computed
verify_hash_FailOpen(session_data, expected_hash) ==
    IF ~Truthy(expected_hash) \/ expected_hash.t # "str" THEN FALSE
    ELSE LET calculated_hash == calculate_hash(session_data)
         IN  IF calculated_hash.exc THEN TRUE
             ELSE Lower(calculated_hash.val) = Lower(expected_hash.s)

\* verify_hash, lines 73-93
verify_hash(session_data, expected_hash) ==
    IF ~Truthy(expected_hash) \/ expected_hash.t # "str" THEN FALSE
    ELSE LET calculated_hash == calculate_hash(session_data)
         IN  IF calculated_hash.exc THEN FALSE
             ELSE Lower(calculated_hash.val) = Lower(expected_hash.s)

\* f"{n}" for a number
NumText(v) == IF v.t = "float" THEN ToString(v.n) \o ".0" ELSE ToString(v.n)

\* lines 127-139: the violations of the words array
WordErrors(words) ==
    IF words.t = "null" THEN <<>>
    ELSE IF words.t # "list" THEN << "Words must be an array" >>
    ELSE IF Len(words.v) = 0 THEN << "Words array cannot be empty" >>
    ELSE Flatten([i \in 1..Len(words.v) |->
            IF words.v[i].t # "dict"
            THEN << "Word " \o ToString(i - 1) \o " must be an object" >>
            ELSE IF ~Truthy(Get(words.v[i], "text"))
            THEN << "Word " \o ToString(i - 1) \o " missing text field" >>
            ELSE <<>>])

\* lines 141-159: the violations of the keystrokes array
KeystrokeErrors(keystrokes) ==
    IF keystrokes.t = "null" THEN <<>>
    ELSE IF keystrokes.t # "list" THEN << "Keystrokes must be an array" >>
    ELSE IF Len(keystrokes.v) = 0 THEN << "Keystrokes array cannot be empty" >>
    ELSE Flatten([i \in 1..Len(keystrokes.v) |->
            LET keystroke == keystrokes.v[i]
                n == ToString(i - 1)
            IN  IF keystroke.t # "dict"
                THEN << "Keystroke " \o n \o " must be an object" >>
                ELSE (IF ~Truthy(Get(keystroke, "key"))
                      THEN << "Keystroke " \o n \o " missing key field" >> ELSE <<>>)
                  \o (IF Get(keystroke, "timestamp").t = "null"
                      THEN << "Keystroke " \o n \o " missing timestamp" >> ELSE <<>>)
                  \o (IF Get(keystroke, "wordIndex").t = "null"
                      THEN << "Keystroke " \o n \o " missing wordIndex" >> ELSE <<>>)])

\* lines 161-176: the violations of stats (stats is truthy and a dict here)
StatsErrors(stats) ==
    LET wpm == Get(stats, "wpm")
        accuracy == Get(stats, "accuracy")
    IN  (IF wpm.t = "null" THEN <<>>
         ELSE IF ~IsNumber(wpm) THEN << "WPM must be a number" >>
         ELSE IF wpm.n < 0 \/ wpm.n > 300
         THEN << "WPM " \o NumText(wpm) \o " is outside reasonable range (0-300)" >>
         ELSE <<>>)
     \o (IF accuracy.t = "null" THEN <<>>
         ELSE IF ~IsNumber(accuracy) THEN << "Accuracy must be a number" >>
         ELSE IF accuracy.n < 0 \/ accuracy.n > 100
         THEN << "Accuracy " \o NumText(accuracy) \o " must be between 0 and 100" >>
         ELSE <<>>)

required_fields == << "seed", "stage", "words", "keystrokes" >>

\* Returns Ok([valid, errors]) or raises (a non-dict session, a truthy non-dict stats)
validate_session_data(session_data) ==
    IF session_data.t # "dict" THEN Raise
    ELSE
    LET missing == Flatten([i \in 1..Len(required_fields) |->
                      IF ~Has(session_data, required_fields[i])
                      THEN << "Missing required field: " \o required_fields[i] >>
                      ELSE <<>>])
        seed == Get(session_data, "seed")
        seedErr == IF seed.t # "null" /\ ~IsNumber(seed)
                   THEN << "Seed must be a number" >> ELSE <<>>
        stage == Get(session_data, "stage")
        stageErr == IF stage.t = "null" THEN <<>>
                    ELSE IF ~IsNumber(stage) THEN << "Stage must be a number" >>
                    ELSE IF stage.n < 1 THEN << "Stage must be at least 1" >>
                    ELSE <<>>
        stats == Get(session_data, "stats")
        errors == missing \o seedErr \o stageErr
                    \o WordErrors(Get(session_data, "words"))
                    \o KeystrokeErrors(Get(session_data, "keystrokes"))
                    \o (IF Truthy(stats) THEN StatsErrors(stats) ELSE <<>>)
    IN  IF Truthy(stats) /\ stats.t # "dict" THEN Raise
        ELSE Ok([valid |-> Len(errors) = 0, errors |-> errors])

IsHexChar(c) == (c >= 48 /\ c <= 57) \/ (c >= 97 /\ c <= 102)

\* re.match(r'^[0-9a-f]{8}-[0-9a-f]{4}-4[0-9a-f]{3}-[89ab][0-9a-f]{3}-[0-9a-f]{12}$', s):
\* 36 characters, or 37 of which the last is a newline ($ matches before it)
UuidPatternMatches(s) ==
    /\ \/ Len(s) = 36
       \/ Len(s) = 37 /\ s[37] = 10
    /\ \A i \in 1..36 :
          IF i \in {9, 14, 19, 24} THEN s[i] = 45
          ELSE IF i = 15 THEN s[i] = 52
          ELSE IF i = 20 THEN s[i] \in {56, 57, 97, 98}
          ELSE IsHexChar(s[i])

is_valid_uuid(uuid_string) ==
    IF ~Truthy(uuid_string) \/ uuid_string.t # "str" THEN FALSE
    ELSE UuidPatternMatches(Lower(uuid_string.s))

\* str.isupper(): at least one cased character and no lowercase one
IsUpperCased(c) == (c >= 65 /\ c <= 90) \/ (c >= 192 /\ c <= 222 /\ c # 215)
IsLowerCased(c) == (c >= 97 /\ c <= 122) \/ (c >= 223 /\ c <= 255 /\ c # 247)
isupper(s) == /\ \E i \in 1..Len(s) : IsUpperCased(s[i])
              /\ \A i \in 1..Len(s) : ~IsLowerCased(s[i])

\* lines 214-218
UserIdErrors(submission) ==
    IF ~Truthy(Get(submission, "userId")) THEN << "Missing userId" >>
    ELSE IF ~is_valid_uuid(Get(submission, "userId"))
    THEN << "Invalid userId format (must be UUIDv4)" >>
    ELSE <<>>

\* lines 220-224
InitialsErrors(submission) ==
    LET initials == Get(submission, "initials")
    IN  IF ~Truthy(initials) THEN << "Missing initials" >>
        ELSE IF initials.t # "str" \/ Len(initials.s) # 3 \/ ~isupper(initials.s)
        THEN << "Initials must be exactly 3 uppercase letters" >>
        ELSE <<>>

\* validate_submission rejecting a submission without sessionHash silently
validate_submission_SilentReject(submission) ==
    LET session_data == Get(submission, "sessionData")
        session_hash == Get(submission, "sessionHash")
        checked == validate_session_data(session_data)
        hashErr == IF checked.val.valid /\ ~verify_hash(session_data, session_hash)
                   THEN << "Session hash does not match session data" >> ELSE <<>>
        errors == checked.val.errors \o hashErr
                    \o UserIdErrors(submission) \o InitialsErrors(submission)
    IN  IF ~Truthy(session_data)
        THEN Ok([valid |-> FALSE, errors |-> << "Missing sessionData" >>])
        ELSE IF ~Truthy(session_hash)
        THEN Ok([valid |-> FALSE, errors |-> <<>>])
        ELSE IF checked.exc THEN Raise
        ELSE Ok([valid |-> Len(errors) = 0, errors |-> errors])

\* validate_submission that returns after the first violation it finds
validate_submission_StopAtFirst(submission) ==
    LET session_data == Get(submission, "sessionData")
        session_hash == Get(submission, "sessionHash")
        checked == validate_session_data(session_data)
        hashErr == IF checked.val.valid /\ ~verify_hash(session_data, session_hash)
                   THEN << "Session hash does not match session data" >> ELSE <<>>
        errors == checked.val.errors \o hashErr
                    \o UserIdErrors(submission) \o InitialsErrors(submission)
    IN  IF ~Truthy(session_data)
        THEN Ok([valid |-> FALSE, errors |-> << "Missing sessionData" >>])
        ELSE IF ~Truthy(session_hash)
        THEN Ok([valid |-> FALSE, errors |-> << "Missing sessionHash" >>])
        ELSE IF checked.exc THEN Raise
        ELSE Ok([valid |-> Len(errors) = 0,
                 errors |-> IF Len(errors) = 0 THEN errors ELSE << Head(errors) >>])

\* validate_submission that verifies the hash whatever validate_session_data found
validate_submission_DigestAlways(submission) ==
    LET session_data == Get(submission, "sessionData")
        session_hash == Get(submission, "sessionHash")
        checked == validate_session_data(session_data)
        hashErr == IF ~verify_hash(session_data, session_hash)
                   THEN << "Session hash does not match session data" >> ELSE <<>>
        errors == checked.val.errors \o hashErr
                    \o UserIdErrors(submission) \o InitialsErrors(submission)
    IN  IF ~Truthy(session_data)
        THEN Ok([valid |-> FALSE, errors |-> << "Missing sessionData" >>])
        ELSE IF ~Truthy(session_hash)
        THEN Ok([valid |-> FALSE, errors |-> << "Missing sessionHash" >>])
        ELSE IF checked.exc THEN Raise
        ELSE Ok([valid |-> Len(errors) = 0, errors |-> errors])

\* Returns Ok([valid, errors]) or raises
validate_submission(submission) ==
    LET session_data == Get(submission, "sessionData")
        session_hash == Get(submission, "sessionHash")
        checked == validate_session_data(session_data)
        hashErr == IF checked.val.valid /\ ~verify_hash(session_data, session_hash)
                   THEN << "Session hash does not match session data" >> ELSE <<>>
        errors == checked.val.errors \o hashErr
                    \o UserIdErrors(submission) \o InitialsErrors(submission)
    IN  IF ~Truthy(session_data)
        THEN Ok([valid |-> FALSE, errors |-> << "Missing sessionData" >>])
        ELSE IF ~Truthy(session_hash)
        THEN Ok([valid |-> FALSE, errors |-> << "Missing sessionHash" >>])
        ELSE IF checked.exc THEN Raise
        ELSE Ok([valid |-> Len(errors) = 0, errors |-> errors])

\* ------------------------------------------------------------------------
\* Inputs of the validator: a well-formed submission in which up to
\* MaxDefects fields are replaced by one of the alternatives listed for them
\* ------------------------------------------------------------------------
MaxDefects == 2

\* "123e4567-e89b-42d3-a456-426614174000"
UserIdText ==
    <<49, 50, 51, 101, 52, 53, 54, 55, 45, 101, 56, 57, 98, 45, 52, 50, 100, 51, 45, 97, 52, 53, 54, 45, 52, 50, 54, 54, 49, 52, 49, 55, 52, 48, 48, 48>>

Word(text, spawnTime) == PDict([text |-> text, spawnTime |-> spawnTime])
Keystroke(key, timestamp, wordIndex, duration) ==
    PDict([key |-> key, timestamp |-> timestamp, wordIndex |-> wordIndex,
           duration |-> duration])
Stats(wpm, accuracy) == PDict([wpm |-> wpm, accuracy |-> accuracy])

StrA == PStr(<<97>>)
StrB == PStr(<<98>>)
StrAB == PStr(<<97, 98>>)
EmptyDict == PDict([none |-> Absent])

BaseWords == PList(<< Word(StrAB, PInt(0)), Word(StrA, PInt(1)) >>)
BaseKeystrokes == PList(<< Keystroke(PStr(<<104>>), PInt(1000), PInt(0), Absent),
                           Keystroke(PStr(<<101>>), PInt(1100), PInt(0), Absent) >>)
BaseStats == Stats(PInt(120), PInt(95))
BaseUserId == PStr(UserIdText)
BaseInitials == PStr(<<65, 66, 67>>)

SessionFields == {"seed", "stage", "words", "keystrokes", "stats"}
Fields == SessionFields \cup {"sessionData", "sessionHash", "userId", "initials"}

Base(f) ==
    CASE f = "seed" -> PInt(12345)
      [] f = "stage" -> PInt(3)
      [] f = "words" -> BaseWords
      [] f = "keystrokes" -> BaseKeystrokes
      [] f = "stats" -> BaseStats
      [] f = "userId" -> BaseUserId
      [] f = "initials" -> BaseInitials

\* What a field may hold instead; for sessionHash the alternatives are made
\* from the digest d of the submission's own sessionData
Alternatives(f, d) ==
    CASE f = "seed" -> << Absent, Null, PStr(<<120>>) >>
      [] f = "stage" -> << Null, PInt(0), PStr(<<51>>) >>
      [] f = "words" ->
            << Null, StrAB, PList(<<>>),
               PList(<< PInt(1) >>),
               PList(<< Word(StrA, Absent), Word(PStr(<<>>), Absent) >>),
               PList(<< Word(PInt(1), Absent), Word(StrA, Absent) >>) >>
      [] f = "keystrokes" ->
            << Absent, PList(<<>>),
               PList(<< PInt(1) >>),
               PList(<< Keystroke(Absent, Null, PInt(0), Absent) >>),
               PList(<< Keystroke(PStr(<<104>>), PInt(0), Absent, PInt(5)) >>) >>
      [] f = "stats" ->
            << Absent, Null, PInt(5),
               Stats(PInt(301), PInt(101)), Stats(Null, Null),
               Stats(PStr(<<102>>), Absent), Stats(PInt(0 - 1), PInt(0 - 1)),
               Stats(PInt(300), PFloat(100)) >>
      [] f = "sessionData" -> << Absent, EmptyDict, PList(<< PInt(1) >>) >>
      [] f = "sessionHash" ->
            << Absent, PStr(<<>>), PInt(5), PStr(Upper(d)),
               PStr(<<48, 48>> \o SubSeq(d, 3, Len(d))) >>
      [] f = "userId" ->
            << Absent, PInt(5), PStr(Upper(UserIdText)), PStr(UserIdText \o <<10>>),
               PStr([UserIdText EXCEPT ![15] = 49]) >>
      [] f = "initials" ->
            << Absent, PStr(<<97, 98, 99>>), PStr(<<65, 49, 66>>), PStr(<<65, 66>>),
               PStr(<<192, 66, 67>>), PList(<< StrA, StrB, StrAB >>) >>

\* the longest list of alternatives
MaxAlternatives ==
    LET n(f) == Len(Alternatives(f, <<48, 48, 48, 48>>))
    IN  CHOOSE m \in {n(f) : f \in Fields} : \A f \in Fields : n(f) <= m

\* the digest an honest client sends; some string when its data cannot be hashed
ClientDigest(session_data) ==
    LET h == IF session_data.t = "dict" THEN calculate_hash(session_data) ELSE Raise
    IN  IF h.exc THEN <<97, 98, 99, 100>> ELSE h.val

\* The submission with the fields in D replaced by their c[f]-th alternative
BuildSubmission(D, c) ==
    LET pick(f) == IF f \in D THEN Alternatives(f, <<>>)[c[f]] ELSE Base(f)
        session == PDict([seed |-> pick("seed"), stage |-> pick("stage"),
                          words |-> pick("words"), keystrokes |-> pick("keystrokes"),
                          stats |-> pick("stats")])
        sessionData == IF "sessionData" \in D
                       THEN Alternatives("sessionData", <<>>)[c["sessionData"]]
                       ELSE session
        d == ClientDigest(sessionData)
    IN  PDict([sessionData |-> sessionData,
               sessionHash |-> IF "sessionHash" \in D
                               THEN Alternatives("sessionHash", d)[c["sessionHash"]]
                               ELSE PStr(d),
               userId |-> pick("userId"),
               initials |-> pick("initials")])

Choices(D) == {c \in [D -> 1..MaxAlternatives] :
                  \A f \in D : c[f] <= Len(Alternatives(f, <<48, 48, 48, 48>>))}

SubmissionInputs ==
    UNION { {BuildSubmission(D, c) : c \in Choices(D)} :
            D \in {D \in SUBSET Fields : Cardinality(D) <= MaxDefects} }

\* ------------------------------------------------------------------------
\* Inputs of the canonicalizer: sessions whose words (or keystrokes) are any
\* list of up to MaxWords (MaxKeystrokes) of the items below
\* ------------------------------------------------------------------------
MaxWords == 2
MaxKeystrokes == 2

WordItems ==
    { Word(StrA, Absent), Word(StrB, PInt(0)), Word(StrAB, Absent),
      Word(PStr(<<>>), Absent), Word(PInt(1), Absent), Word(PFloat(1), Absent) }

KeystrokeItems ==
    { Keystroke(PStr(<<104>>), PInt(1000), PInt(0), Absent),
      Keystroke(PStr(<<104>>), PInt(1000), PInt(0), PInt(5)),
      Keystroke(PStr(<<101>>), PInt(1100), PInt(0), Absent),
      Keystroke(Null, PInt(1000), PInt(1), Absent) }

SeqsUpTo(S, n) == UNION { [1..k -> S] : k \in 0..n }

Session(words, keystrokes, stats, duration) ==
    PDict([seed |-> PInt(12345), stage |-> PInt(3), words |-> words,
           keystrokes |-> keystrokes, stats |-> stats, duration |-> duration])

CanonInputs ==
    { Session(PList(w), BaseKeystrokes, BaseStats, Absent) : w \in SeqsUpTo(WordItems, MaxWords) }
    \cup
    { Session(BaseWords, PList(k), BaseStats, Absent) : k \in SeqsUpTo(KeystrokeItems, MaxKeystrokes) }

\* s rearranged: position i of the result holds s[p[i]]
Permuted(s, p) == [i \in 1..Len(s) |-> s[p[i]]]
Orderings(n) == { p \in [1..n -> 1..n] : \A i, j \in 1..n : i # j => p[i] # p[j] }

\* ------------------------------------------------------------------------
\* generate_static.py: the leaderboard file and its regeneration
\* ------------------------------------------------------------------------
\* data/leaderboard.json does not exist
Missing == [t |-> "missing"]

\* A file that exists and cannot be opened for reading
Unreadable == [t |-> "unreadable"]

\* open(filepath, 'r') and json.load(f), lines 86-87: open raises OSError for
\* a file that cannot be read, json.load raises JSONDecodeError for an empty
\* file and for the beginning of a document
json_load(file) ==
    IF file.t \in {"unreadable", "empty", "prefix"} THEN Raise ELSE Ok(file)

\* Without the try / except of lines 85-90
load_json_safe_Unguarded(file, default) ==
    IF file.t = "missing" THEN default ELSE json_load(file)

\* load_json_safe, lines 71-90
load_json_safe(file, default) ==
    IF file.t = "missing"
    THEN default
    ELSE LET parsed == json_load(file)
         IN  IF parsed.exc THEN default ELSE parsed.val

\* lambda s: (-s.get('wpm', 0), s.get('timestamp', 0)), lines 125-127
SortKey(s) == [wpm |-> GetDefault(s, "wpm", PInt(0)),
               timestamp |-> GetDefault(s, "timestamp", PInt(0))]

\* -s.get('wpm', 0) raises TypeError
KeyRaises(s) == ~IsNumber(SortKey(s).wpm)

\* a == b for two timestamps
PyEq(a, b) == IF IsNumber(a) /\ IsNumber(b) THEN a.n = b.n ELSE a = b

\* key(a) < key(b) raises TypeError: equal first components, second ones
\* neither equal nor ordered
KeyIncomparable(a, b) ==
    /\ SortKey(a).wpm.n = SortKey(b).wpm.n
    /\ ~PyEq(SortKey(a).timestamp, SortKey(b).timestamp)
    /\ Incomparable(SortKey(a).timestamp, SortKey(b).timestamp)

\* key(a) < key(b), tuples compared lexicographically
KeyLt(a, b) ==
    IF SortKey(a).wpm.n # SortKey(b).wpm.n THEN SortKey(a).wpm.n > SortKey(b).wpm.n
    ELSE IF PyEq(SortKey(a).timestamp, SortKey(b).timestamp) THEN FALSE
    ELSE PyLt(SortKey(a).timestamp, SortKey(b).timestamp)

\* An insertion that puts x before the elements whose key equals its own
RECURSIVE InsertByKey_BeforeEqual(_, _)
InsertByKey_BeforeEqual(x, s) ==
    IF Len(s) = 0 THEN <<x>>
    ELSE IF ~KeyLt(Head(s), x) THEN <<x>> \o s
    ELSE <<Head(s)>> \o InsertByKey_BeforeEqual(x, Tail(s))

\* list.sort is stable: x goes after every element whose key is not greater
RECURSIVE InsertByKey(_, _)
InsertByKey(x, s) ==
    IF Len(s) = 0 THEN <<x>>
    ELSE IF KeyLt(x, Head(s)) THEN <<x>> \o s
    ELSE <<Head(s)>> \o InsertByKey(x, Tail(s))

RECURSIVE SortByKey(_)
SortByKey(s) ==
    IF Len(s) = 0 THEN <<>>
    ELSE InsertByKey(s[Len(s)], SortByKey(SubSeq(s, 1, Len(s) - 1)))

\* A sort that leaves the list as it is
sort_KeepOrder(scores) ==
    IF \E i \in 1..Len(scores) : KeyRaises(scores[i]) THEN Raise ELSE Ok(scores)

\* unique_scores.sort(key=...), lines 125-127
sort(scores) ==
    IF \E i \in 1..Len(scores) : KeyRaises(scores[i]) THEN Raise
    ELSE IF \E i, j \in 1..Len(scores) : i < j /\ KeyIncomparable(scores[i], scores[j])
    THEN Raise
    ELSE Ok(SortByKey(scores))

\* The loop of lines 115-122 without the test against seen_hashes
unique_scores_KeepAll(all_scores, seen_hashes) ==
    FilterSeq(all_scores, [i \in 1..Len(all_scores) |->
                              Truthy(Get(all_scores[i], "sessionHash"))])

\* lines 115-122: the first occurrence of every truthy sessionHash
RECURSIVE unique_scores(_, _)
unique_scores(all_scores, seen_hashes) ==
    IF Len(all_scores) = 0 THEN <<>>
    ELSE LET score == Head(all_scores)
             hash_val == Get(score, "sessionHash")
         IN  IF Truthy(hash_val) /\ hash_val \notin seen_hashes
             THEN <<score>> \o unique_scores(Tail(all_scores), seen_hashes \cup {hash_val})
             ELSE unique_scores(Tail(all_scores), seen_hashes)

\* lines 130-134: the first max_scores entries, ranked from 1
top_scores(sorted_scores, max_scores) ==
    LET n == IF Len(sorted_scores) < max_scores THEN Len(sorted_scores) ELSE max_scores
    IN  [i \in 1..n |-> PDict([sorted_scores[i].d EXCEPT !.rank = PInt(i)])]

\* generate_leaderboard without the cut to max_scores
generate_leaderboard_Uncut(scores, file, max_scores, now) ==
    LET existing == load_json_safe(file, PDict([version |-> PInt(1), scores |-> PList(<<>>)]))
        all_scores == GetDefault(existing, "scores", PList(<<>>)).v \o scores
        sorted_scores == sort(unique_scores(all_scores, {}))
    IN  IF sorted_scores.exc THEN Raise
        ELSE Ok(PDict([version |-> PInt(1),
                       generated |-> PInt(now),
                       scores |-> PList(top_scores(sorted_scores.val,
                                                   Len(sorted_scores.val)))]))

\* generate_leaderboard, lines 93-143; file is the content of existing_path
generate_leaderboard(scores, file, max_scores, now) ==
    LET existing == load_json_safe(file, PDict([version |-> PInt(1), scores |-> PList(<<>>)]))
        all_scores == GetDefault(existing, "scores", PList(<<>>)).v \o scores
        sorted_scores == sort(unique_scores(all_scores, {}))
    IN  IF sorted_scores.exc THEN Raise
        ELSE Ok(PDict([version |-> PInt(1),
                       generated |-> PInt(now),
                       scores |-> PList(top_scores(sorted_scores.val, max_scores))]))

\* ------------------------------------------------------------------------
\* process_queue.py: one pass over the queue
\* ------------------------------------------------------------------------
\* lines 185-199; stats.get on a stats that is no dict raises AttributeError
score_obj(submission, now) ==
    LET session_hash == Get(submission, "sessionHash")
        session_data == GetDefault(submission, "sessionData", EmptyDict)
        stats == GetDefault(session_data, "stats", EmptyDict)
    IN  IF stats.t # "dict" THEN Raise
        ELSE Ok(PDict([sessionHash |-> session_hash,
                       userId |-> Get(submission, "userId"),
                       initials |-> Get(submission, "initials"),
                       wpm |-> GetDefault(stats, "wpm", PInt(0)),
                       accuracy |-> GetDefault(stats, "accuracy", PInt(0)),
                       stage |-> GetDefault(session_data, "stage", PInt(0)),
                       timestamp |-> GetDefault(submission, "timestamp", PInt(now)),
                       votes |-> PDict([up |-> PInt(0), flags |-> PInt(0)]),
                       replayUrl |-> session_hash,
                       rank |-> Absent]))

\* generate_replay_file, lines 190-224: the names of the replay files after
\* the call; the file is named after the sessionHash inside the session data
generate_replay_file(session_data, replay_files) ==
    IF Truthy(Get(session_data, "sessionHash"))
    THEN replay_files \cup {Get(session_data, "sessionHash")}
    ELSE replay_files

\* The loop of lines 159-219 taking, of the valid submissions of a batch that
\* carry one hash, the last instead of the first
RECURSIVE process_items_LastInBatchWins(_, _, _, _)
process_items_LastInBatchWins(queue_items, existing_hashes, replay_files, now) ==
    IF Len(queue_items) = 0
    THEN [exc |-> FALSE, valid_scores |-> <<>>, processed_keys |-> <<>>,
          replay_files |-> replay_files]
    ELSE
    LET key == Head(queue_items).key
        submission == Head(queue_items).value
        rest == Tail(queue_items)
        is_score == \/ Get(submission, "type") = PStr(<<115, 99, 111, 114, 101>>)
                    \/ Has(submission, "sessionData")
        checked == Head(queue_items).checked
        session_hash == Get(submission, "sessionHash")
        score == score_obj(submission, now)
        later == \E i \in 1..Len(rest) :
                    /\ ~rest[i].checked.exc
                    /\ rest[i].checked.val.valid
                    /\ Get(rest[i].value, "sessionHash") = session_hash
        skipped == process_items_LastInBatchWins(rest, existing_hashes, replay_files, now)
        accepted == process_items_LastInBatchWins(rest, existing_hashes \cup {session_hash},
                        generate_replay_file(Get(submission, "sessionData"), replay_files), now)
        failed == [exc |-> TRUE, valid_scores |-> <<>>, processed_keys |-> <<>>,
                   replay_files |-> replay_files]
    IN  IF ~is_score THEN skipped
        ELSE IF checked.exc THEN failed
        ELSE IF ~checked.val.valid \/ session_hash \in existing_hashes \/ later
        THEN [skipped EXCEPT !.processed_keys = <<key>> \o @]
        ELSE IF score.exc THEN failed
        ELSE [accepted EXCEPT !.valid_scores = <<score.val>> \o @,
                              !.processed_keys = <<key>> \o @]

\* The loop of process_score_submissions, lines 159-219, over queue items
\* [key, value, checked], checked being validate_submission(value): what the
\* loop has collected when it ends or raises
RECURSIVE process_items(_, _, _, _)
process_items(queue_items, existing_hashes, replay_files, now) ==
    IF Len(queue_items) = 0
    THEN [exc |-> FALSE, valid_scores |-> <<>>, processed_keys |-> <<>>,
          replay_files |-> replay_files]
    ELSE
    LET key == Head(queue_items).key
        submission == Head(queue_items).value
        rest == Tail(queue_items)
        is_score == \/ Get(submission, "type") = PStr(<<115, 99, 111, 114, 101>>)
                    \/ Has(submission, "sessionData")
        checked == Head(queue_items).checked
        session_hash == Get(submission, "sessionHash")
        score == score_obj(submission, now)
        skipped == process_items(rest, existing_hashes, replay_files, now)
        accepted == process_items(rest, existing_hashes \cup {session_hash},
                        generate_replay_file(Get(submission, "sessionData"), replay_files), now)
        failed == [exc |-> TRUE, valid_scores |-> <<>>, processed_keys |-> <<>>,
                   replay_files |-> replay_files]
    IN  IF ~is_score THEN skipped
        ELSE IF checked.exc THEN failed
        ELSE IF ~checked.val.valid \/ session_hash \in existing_hashes
        THEN [skipped EXCEPT !.processed_keys = <<key>> \o @]
        ELSE IF score.exc THEN failed
        ELSE [accepted EXCEPT !.valid_scores = <<score.val>> \o @,
                              !.processed_keys = <<key>> \o @]

\* process_score_submissions, lines 138-239, up to the deletion of the keys;
\* votes is what fetch_vote_counts returns for the hashes of the valid scores
process_score_submissions(queue_items, file, replay_files, votes, now) ==
    LET existing_leaderboard == load_json_safe(file, PDict([scores |-> PList(<<>>)]))
        existing == GetDefault(existing_leaderboard, "scores", PList(<<>>)).v
        existing_hashes == { existing[i].d.sessionHash : i \in 1..Len(existing) }
        looped == process_items(queue_items, existing_hashes, replay_files, now)
        valid_scores == looped.valid_scores
    IN  IF looped.exc THEN looped
        ELSE [looped EXCEPT !.valid_scores =
                 [i \in 1..Len(valid_scores) |->
                     PDict([valid_scores[i].d EXCEPT
                               !.votes = votes[valid_scores[i].d.sessionHash]])]]

\* ------------------------------------------------------------------------
\* moderate_scores.py
\* ------------------------------------------------------------------------
\* load_leaderboard, lines 15-34
load_leaderboard(file) ==
    IF file.t = "missing" THEN PDict([version |-> PInt(1), scores |-> PList(<<>>)]) ELSE file

\* list_flagged_scores that takes only the scores with more flags than the threshold
list_flagged_scores_Above(leaderboard, flag_threshold) ==
    LET scores == GetDefault(leaderboard, "scores", PList(<<>>)).v
        flagged == FilterSeq(scores, [i \in 1..Len(scores) |->
                      GetDefault(GetDefault(scores[i], "votes", EmptyDict), "flags", PInt(0)).n
                          > flag_threshold])
    IN  [i \in 1..Len(flagged) |->
            LET score == flagged[i]
                votes == GetDefault(score, "votes", EmptyDict)
            IN  PDict([rank |-> Get(score, "rank"),
                       sessionHash |-> Get(score, "sessionHash"),
                       userId |-> Get(score, "userId"),
                       initials |-> Get(score, "initials"),
                       wpm |-> Get(score, "wpm"),
                       accuracy |-> Get(score, "accuracy"),
                       stage |-> Get(score, "stage"),
                       flags |-> GetDefault(votes, "flags", PInt(0)),
                       upvotes |-> GetDefault(votes, "up", PInt(0))])]

\* list_flagged_scores, lines 60-93: the projections of the flagged scores, in
\* leaderboard order
list_flagged_scores(leaderboard, flag_threshold) ==
    LET scores == GetDefault(leaderboard, "scores", PList(<<>>)).v
        flagged == FilterSeq(scores, [i \in 1..Len(scores) |->
                      GetDefault(GetDefault(scores[i], "votes", EmptyDict), "flags", PInt(0)).n
                          >= flag_threshold])
    IN  [i \in 1..Len(flagged) |->
            LET score == flagged[i]
                votes == GetDefault(score, "votes", EmptyDict)
            IN  PDict([rank |-> Get(score, "rank"),
                       sessionHash |-> Get(score, "sessionHash"),
                       userId |-> Get(score, "userId"),
                       initials |-> Get(score, "initials"),
                       wpm |-> Get(score, "wpm"),
                       accuracy |-> Get(score, "accuracy"),
                       stage |-> Get(score, "stage"),
                       flags |-> GetDefault(votes, "flags", PInt(0)),
                       upvotes |-> GetDefault(votes, "up", PInt(0))])]

\* delete_score_by_hash without the re-ranking of lines 145-147
delete_score_by_hash_NoRerank(leaderboard, session_hash) ==
    LET scores == GetDefault(leaderboard, "scores", PList(<<>>)).v
        kept == FilterSeq(scores, [i \in 1..Len(scores) |->
                                      Get(scores[i], "sessionHash") # session_hash])
    IN  PDict([leaderboard.d EXCEPT !.scores = PList(kept)])

\* delete_score_by_hash that compares the hashes without regard to letter case
delete_score_by_hash_AnyCase(leaderboard, session_hash) ==
    LET scores == GetDefault(leaderboard, "scores", PList(<<>>)).v
        kept == FilterSeq(scores, [i \in 1..Len(scores) |->
                                      Lower(Get(scores[i], "sessionHash").s) # Lower(session_hash.s)])
    IN  PDict([leaderboard.d EXCEPT !.scores =
                  PList([i \in 1..Len(kept) |-> PDict([kept[i].d EXCEPT !.rank = PInt(i)])])])

\* delete_score_by_hash, lines 122-149: the leaderboard afterwards
delete_score_by_hash(leaderboard, session_hash) ==
    LET scores == GetDefault(leaderboard, "scores", PList(<<>>)).v
        kept == FilterSeq(scores, [i \in 1..Len(scores) |->
                                      Get(scores[i], "sessionHash") # session_hash])
    IN  PDict([leaderboard.d EXCEPT !.scores =
                  PList([i \in 1..Len(kept) |-> PDict([kept[i].d EXCEPT !.rank = PInt(i)])])])

\* What delete_score_by_hash returns, line 149
score_deleted(leaderboard, session_hash) ==
    Len(Get(delete_score_by_hash(leaderboard, session_hash), "scores").v)
        < Len(GetDefault(leaderboard, "scores", PList(<<>>)).v)

\* batch_delete_flagged, lines 300-304: delete_score_by_hash for every flagged
\* score; the leaderboard afterwards and the number of calls that returned true
RECURSIVE delete_all(_, _)
delete_all(leaderboard, flagged) ==
    IF Len(flagged) = 0 THEN [leaderboard |-> leaderboard, deleted |-> 0]
    ELSE LET session_hash == Get(Head(flagged), "sessionHash")
             rest == delete_all(delete_score_by_hash(leaderboard, session_hash), Tail(flagged))
         IN  [rest EXCEPT !.deleted = @ + (IF score_deleted(leaderboard, session_hash)
                                           THEN 1 ELSE 0)]

\* str.strip(): leading and trailing ASCII whitespace removed
strip(s) ==
    LET inked == { i \in 1..Len(s) : s[i] \notin {9, 10, 11, 12, 13, 32} }
    IN  IF inked = {} THEN <<>>
        ELSE SubSeq(s, CHOOSE i \in inked : \A j \in inked : i <= j,
                       CHOOSE i \in inked : \A j \in inked : i >= j)

\* The answer that confirms, line 295: 'yes'
Yes == <<121, 101, 115>>

\* batch_delete_flagged that asks for no confirmation
batch_delete_flagged_Unasked(leaderboard, flag_threshold, answer) ==
    delete_all(leaderboard, list_flagged_scores(leaderboard, flag_threshold))

\* batch_delete_flagged, lines 267-314, answer being the line typed at the
\* prompt: the leaderboard in memory afterwards and the number returned
batch_delete_flagged(leaderboard, flag_threshold, answer) ==
    LET flagged == list_flagged_scores(leaderboard, flag_threshold)
        confirm == Lower(strip(answer))
    IN  IF Len(flagged) = 0 THEN [leaderboard |-> leaderboard, deleted |-> 0]
        ELSE IF confirm # Yes THEN [leaderboard |-> leaderboard, deleted |-> 0]
        ELSE delete_all(leaderboard, flagged)

\* The clock: datetime.now() in milliseconds
Now == 1000

\* save_leaderboard, lines 37-57
save_leaderboard(data) == PDict([k \in DOMAIN data.d \cup {"generated"} |->
                                    IF k = "generated" THEN PInt(Now) ELSE data.d[k]])

\* The default thresholds of interactive_moderation and batch_delete_flagged
InteractiveThreshold == 3
BatchThreshold == 5

\* Vote counts: none, or enough flags for either threshold
NoVotes == PDict([up |-> PInt(0), flags |-> PInt(0)])
Flagged == PDict([up |-> PInt(1), flags |-> PInt(BatchThreshold)])

\* The value of a string of decimal digits
RECURSIVE DecimalValue(_)
DecimalValue(digits) ==
    IF Len(digits) = 0 THEN 0
    ELSE 10 * DecimalValue(SubSeq(digits, 1, Len(digits) - 1)) + (digits[Len(digits)] - 48)

\* int(s) for a str, line 251: blanks around the number are skipped, a sign
\* may lead, single underscores may stand between digits; anything else is a
\* ValueError (ASCII only)
int(s) ==
    LET t == strip(s)
        signed == Len(t) > 0 /\ t[1] \in {43, 45}
        body == IF signed THEN Tail(t) ELSE t
        wellformed ==
            /\ Len(body) > 0
            /\ \A i \in 1..Len(body) :
                  \/ body[i] \in 48..57
                  \/ /\ body[i] = 95
                     /\ i > 1 /\ i < Len(body)
                     /\ body[i - 1] \in 48..57 /\ body[i + 1] \in 48..57
        magnitude == DecimalValue(FilterSeq(body, [i \in 1..Len(body) |-> body[i] # 95]))
    IN  IF ~wellformed THEN Raise
        ELSE Ok(IF t[1] = 45 THEN 0 - magnitude ELSE magnitude)

\* interactive_moderation that lists every score, whatever its flags
interactive_moderation_ListsAll(leaderboard, flag_threshold) ==
    LET flagged == list_flagged_scores(leaderboard, 0)
    IN  [pc |-> IF Len(flagged) = 0 THEN "return" ELSE "choice",
         flag_threshold |-> flag_threshold, flagged |-> flagged]

\* interactive_moderation, lines 176-204, up to its first prompt: the scores
\* are listed with the threshold given; with none flagged the function returns,
\* else it prints them and the options and waits for the choice
interactive_moderation(leaderboard, flag_threshold) ==
    LET flagged == list_flagged_scores(leaderboard, flag_threshold)
    IN  [pc |-> IF Len(flagged) = 0 THEN "return" ELSE "choice",
         flag_threshold |-> flag_threshold, flagged |-> flagged]

\* lines 212-217: the listed score with the hash typed, None without one
score_to_delete(flagged, session_hash) ==
    IF \E i \in 1..Len(flagged) : Get(flagged[i], "sessionHash") = PStr(session_hash)
    THEN flagged[CHOOSE i \in 1..Len(flagged) :
                    /\ Get(flagged[i], "sessionHash") = PStr(session_hash)
                    /\ \A k \in 1..(i - 1) : Get(flagged[k], "sessionHash") # PStr(session_hash)]
    ELSE Null

\* The word that leaves the hash prompt, line 208: 'cancel'
Cancel == <<99, 97, 110, 99, 101, 108>>

\* ------------------------------------------------------------------------
\* The feedback list: process_feedback_submissions, generate_feedback and
\* the schema checks of generate_static.py
\* ------------------------------------------------------------------------
StrBug == PStr(<<98, 117, 103>>)
StrFeature == PStr(<<102, 101, 97, 116, 117, 114, 101>>)
StrFeedback == PStr(<<102, 101, 101, 100, 98, 97, 99, 107>>)
StrPraise == PStr(<<112, 114, 97, 105, 115, 101>>)
StrOpen == PStr(<<111, 112, 101, 110>>)

\* key.split(':')[-1], process_queue.py:275: what follows the last colon
RECURSIVE LastSegment(_)
LastSegment(key) ==
    IF Len(key) = 0 \/ key[Len(key)] = 58 THEN <<>>
    ELSE LastSegment(SubSeq(key, 1, Len(key) - 1)) \o <<key[Len(key)]>>

\* process_queue.py:274-290; .get on a gameContext that is no dict raises
\* AttributeError
feedback_obj(key, feedback, now) ==
    LET gameContext == Get(feedback, "gameContext")
    IN  IF Has(feedback, "gameContext") /\ gameContext.t # "dict" THEN Raise
        ELSE Ok(PDict([id |-> GetDefault(feedback, "feedbackId", PStr(LastSegment(key))),
                       type |-> GetDefault(feedback, "type", StrFeedback),
                       description |-> Get(feedback, "description"),
                       userId |-> Get(feedback, "userId"),
                       timestamp |-> GetDefault(feedback, "timestamp", PInt(now)),
                       votes |-> PInt(0),
                       status |-> GetDefault(feedback, "status", StrOpen),
                       context |-> IF Has(feedback, "gameContext")
                                   THEN PDict([stage |-> Get(gameContext, "stage"),
                                               wpm |-> Get(gameContext, "wpm"),
                                               accuracy |-> Get(gameContext, "accuracy")])
                                   ELSE Absent]))

\* The loop of process_queue.py:259-293 over feedback_items, each a record
\* of key and value: the feedback objects built and the keys to delete
RECURSIVE valid_feedback(_, _)
valid_feedback(feedback_items, now) ==
    IF Len(feedback_items) = 0 THEN Ok([valid_feedback |-> <<>>, processed_keys |-> <<>>])
    ELSE LET key == Head(feedback_items).key
             feedback == Head(feedback_items).value
             rest == valid_feedback(Tail(feedback_items), now)
             obj == feedback_obj(key, feedback, now)
             rejected == \/ ~Truthy(Get(feedback, "userId"))
                         \/ ~Truthy(Get(feedback, "description"))
         IN  IF ~rejected /\ obj.exc THEN Raise
             ELSE IF rest.exc THEN Raise
             ELSE Ok([valid_feedback |-> (IF rejected THEN <<>> ELSE <<obj.val>>)
                                            \o rest.val.valid_feedback,
                      processed_keys |-> <<key>> \o rest.val.processed_keys])

\* process_feedback_submissions, process_queue.py:242-313; vote_counts is
\* what fetch_feedback_vote_counts (lines 117-135) finds for each id
process_feedback_submissions(feedback_items, vote_counts, now) ==
    LET looped == valid_feedback(feedback_items, now)
    IN  IF looped.exc THEN Raise
        ELSE Ok([valid_feedback |->
                     [i \in 1..Len(looped.val.valid_feedback) |->
                         LET f == looped.val.valid_feedback[i]
                         IN  PDict([f.d EXCEPT !.votes = PInt(vote_counts[Get(f, "id")])])],
                 processed_keys |-> looped.val.processed_keys])

\* item.get('feedbackId') or item.get('id'), generate_static.py:170
item_id(item) ==
    IF Truthy(Get(item, "feedbackId")) THEN Get(item, "feedbackId") ELSE Get(item, "id")

\* generate_static.py:167-173: the first occurrence of every truthy id
RECURSIVE unique_items(_, _)
unique_items(all_items, seen_ids) ==
    IF Len(all_items) = 0 THEN <<>>
    ELSE LET item == Head(all_items)
         IN  IF Truthy(item_id(item)) /\ item_id(item) \notin seen_ids
             THEN <<item>> \o unique_items(Tail(all_items), seen_ids \cup {item_id(item)})
             ELSE unique_items(Tail(all_items), seen_ids)

\* lambda f: (-f.get('votes', 0), -f.get('timestamp', 0)), lines 176-178
FeedbackKey(f) == [votes |-> GetDefault(f, "votes", PInt(0)),
                   timestamp |-> GetDefault(f, "timestamp", PInt(0))]

\* key(a) < key(b)
FeedbackKeyLt(a, b) ==
    IF FeedbackKey(a).votes.n # FeedbackKey(b).votes.n
    THEN FeedbackKey(a).votes.n > FeedbackKey(b).votes.n
    ELSE FeedbackKey(a).timestamp.n > FeedbackKey(b).timestamp.n

\* list.sort is stable
RECURSIVE InsertFeedback(_, _)
InsertFeedback(x, s) ==
    IF Len(s) = 0 THEN <<x>>
    ELSE IF FeedbackKeyLt(x, Head(s)) THEN <<x>> \o s
    ELSE <<Head(s)>> \o InsertFeedback(x, Tail(s))

RECURSIVE SortFeedback(_)
SortFeedback(s) ==
    IF Len(s) = 0 THEN <<>>
    ELSE InsertFeedback(s[Len(s)], SortFeedback(SubSeq(s, 1, Len(s) - 1)))

\* unique_items.sort(key=...), lines 176-178: the unary minus raises
\* TypeError for a value that is no number
sort_items(items) ==
    IF \E i \in 1..Len(items) : \/ ~IsNumber(FeedbackKey(items[i]).votes)
                                \/ ~IsNumber(FeedbackKey(items[i]).timestamp)
    THEN Raise
    ELSE Ok(SortFeedback(items))

\* generate_feedback, lines 146-187; file is the content of existing_path
generate_feedback(feedback_items, file, now) ==
    LET existing == load_json_safe(file, PDict([version |-> PInt(1), items |-> PList(<<>>)]))
        all_items == GetDefault(existing, "items", PList(<<>>)).v \o feedback_items
        sorted_items == sort_items(unique_items(all_items, {}))
    IN  IF sorted_items.exc THEN Raise
        ELSE Ok(PDict([version |-> PInt(1),
                       generated |-> PInt(now),
                       items |-> PList(sorted_items.val)]))

\* The errors of one entry: a required field is missing when neither it nor
\* the field name followed by 'Id' is a key (lines 311-314, 266-269)
MissingFields(kind, i, entry, required, suffixed) ==
    LET missing == [k \in 1..Len(required) |->
                       /\ ~Has(entry, required[k])
                       /\ ~(suffixed /\ Has(entry, required[k] \o "Id"))]
    IN  [k \in 1..Len(FilterSeq(required, missing)) |->
            <<kind, i, "missing required field", FilterSeq(required, missing)[k]>>]

\* The sequences f[1], ..., f[n] one after the other
RECURSIVE Concat(_, _)
Concat(f, n) == IF n = 0 THEN <<>> ELSE Concat(f, n - 1) \o f[n]

\* validate_leaderboard_schema, lines 227-271
validate_leaderboard_schema(data) ==
    IF data.t # "dict" THEN << <<"Leaderboard must be an object">> >>
    ELSE (IF ~Has(data, "version") THEN << <<"Missing 'version' field">> >>
          ELSE IF Get(data, "version") # PInt(1) THEN << <<"Unknown version">> >>
          ELSE <<>>)
      \o (IF ~Has(data, "generated") THEN << <<"Missing 'generated' timestamp">> >>
          ELSE IF ~IsNumber(Get(data, "generated")) THEN << <<"'generated' must be a number">> >>
          ELSE <<>>)
      \o (IF ~Has(data, "scores") THEN << <<"Missing 'scores' array">> >>
          ELSE IF Get(data, "scores").t # "list" THEN << <<"'scores' must be an array">> >>
          ELSE LET scores == Get(data, "scores").v
               IN  Concat([i \in 1..Len(scores) |->
                             IF scores[i].t # "dict" THEN << <<"Score", i - 1, "must be an object">> >>
                             ELSE MissingFields("Score", i - 1, scores[i],
                                                <<"rank", "sessionHash", "userId", "initials",
                                                  "wpm", "accuracy", "stage">>, FALSE)],
                          Len(scores)))

\* validate_feedback_schema, lines 274-320
validate_feedback_schema(data) ==
    IF data.t # "dict" THEN << <<"Feedback must be an object">> >>
    ELSE (IF ~Has(data, "version") THEN << <<"Missing 'version' field">> >>
          ELSE IF Get(data, "version") # PInt(1) THEN << <<"Unknown version">> >>
          ELSE <<>>)
      \o (IF ~Has(data, "generated") THEN << <<"Missing 'generated' timestamp">> >> ELSE <<>>)
      \o (IF ~Has(data, "items") THEN << <<"Missing 'items' array">> >>
          ELSE IF Get(data, "items").t # "list" THEN << <<"'items' must be an array">> >>
          ELSE LET items == Get(data, "items").v
               IN  Concat([i \in 1..Len(items) |->
                             IF items[i].t # "dict"
                             THEN << <<"Feedback item", i - 1, "must be an object">> >>
                             ELSE MissingFields("Feedback item", i - 1, items[i],
                                                <<"id", "type", "description", "userId">>, TRUE)
                                  \o (IF /\ Has(items[i], "type")
                                         /\ Get(items[i], "type") \notin {StrBug, StrFeature}
                                      THEN << <<"Feedback item", i - 1, "has invalid type">> >>
                                      ELSE <<>>)],
                          Len(items)))

\* ------------------------------------------------------------------------
\* State
\* ------------------------------------------------------------------------
VARIABLES
    submission,   \* validator: the submission under validation
    outcome,      \* validator: what validate_submission returned for it
    verified,     \* validator: what calculate_hash / verify_hash returned for it
    orig,         \* canonicalizer: a session record
    session,      \* canonicalizer: the record after one edit
    edit,         \* canonicalizer: which edit was made
    canon,        \* canonicalizer: canonical form and digest of orig and session
    board,        \* merge: the content of the leaderboard file
    merge,        \* merge: arguments and result of the last generate_leaderboard
    default_max_scores,
                  \* pipeline: the max_scores of generate_leaderboard as main calls
                  \* it (its default), never changed
    catalogue,    \* pipeline: what clients may queue: per entry its value,
                  \* validate_submission(value) and the votes the store holds for
                  \* its hash (the votes grow in SpecVotes, nothing else changes)
    queue,        \* pipeline: the queue items in listing order, [key, id]
    submitted,    \* pipeline: how many submissions have been queued
    leaderboard,  \* pipeline: the content of data/leaderboard.json
    replays,      \* pipeline: the names of the files in data/replays
    moderated,    \* moderation: the leaderboard a moderation function is given,
                  \* as it is in memory after the call
    moderation,   \* moderation: arguments and result of the call; of an
                  \* interactive session the prompt it stands at
    disk,         \* persistence: the files of the data directory
    writer,       \* persistence: where the writer of a file is (in SpecOverlap
                  \* the batch run and what it holds in memory)
    loaded,       \* persistence: what load_json_safe was given and what it returned
    feedback_json,   \* feedback: the content of data/feedback.json
    feedback_queue,  \* feedback: the feedback: keys of the key-value store and their values
    feedback_received,  \* feedback: how many feedback submissions were received
    feedback_run,    \* feedback (history): what the last run fetched, built and generated
    last          \* pipeline (history): the operation just made on the leaderboard; of a
                  \* batch run the scores before it, the valid score submissions of
                  \* its queue snapshot and whether it wrote the file; of a
                  \* moderation delete the scores before it and the hashes deleted

validateVars == << submission, outcome, verified >>
canonVars == << orig, session, edit, canon >>
mergeVars == << board, merge >>
pipelineVars == << default_max_scores, catalogue, queue, submitted, leaderboard, replays, last >>
moderateVars == << moderated, moderation >>
persistVars == << disk, writer, loaded >>
feedbackVars == << feedback_json, feedback_queue, feedback_received, feedback_run >>
vars == << submission, outcome, verified, orig, session, edit, canon, board, merge,
           default_max_scores, catalogue, queue, submitted, leaderboard, replays, last,
           moderated, moderation, disk, writer, loaded,
           feedback_json, feedback_queue, feedback_received, feedback_run >>

Pending == [done |-> FALSE]
Done(r) == [done |-> TRUE, r |-> r]

ValidateIdle == submission = Null /\ outcome = Pending /\ verified = Pending
CanonIdle == orig = Null /\ session = Null /\ edit = "none" /\ canon = Pending
MergeIdle == board = Null /\ merge = Pending
PipelineIdle ==
    /\ default_max_scores = 0
    /\ catalogue = <<>> /\ queue = <<>> /\ submitted = 0 /\ leaderboard = Null /\ replays = {} /\ last = Null
ModerateIdle == moderated = Null /\ moderation = Pending
PersistIdle == disk = Null /\ writer = Null /\ loaded = Null
FeedbackIdle ==
    /\ feedback_json = Null /\ feedback_queue = <<>> /\ feedback_received = 0
    /\ feedback_run = Pending

\* ------------------------------------------------------------------------
\* SpecValidate: validate_submission and verify_hash applied to one input
\* ------------------------------------------------------------------------
ValidateInit ==
    /\ submission \in SubmissionInputs
    /\ outcome = Pending
    /\ verified = Pending
    /\ CanonIdle
    /\ MergeIdle
    /\ PipelineIdle
    /\ ModerateIdle
    /\ PersistIdle
    /\ FeedbackIdle

\* validate_submission(submission)
ValidateSubmission ==
    /\ ~outcome.done
    /\ outcome' = Done(validate_submission(submission))
    /\ UNCHANGED << submission, verified >>
    /\ UNCHANGED canonVars
    /\ UNCHANGED mergeVars
    /\ UNCHANGED pipelineVars
    /\ UNCHANGED moderateVars
    /\ UNCHANGED persistVars
    /\ UNCHANGED feedbackVars

\* calculate_hash(sessionData) and verify_hash(sessionData, sessionHash), called
\* directly as test_validation does
VerifyHash ==
    /\ outcome.done
    /\ ~verified.done
    /\ Get(submission, "sessionData").t = "dict"
    /\ verified' = Done([digest |-> calculate_hash(Get(submission, "sessionData")),
                         ok |-> verify_hash(Get(submission, "sessionData"),
                                            Get(submission, "sessionHash"))])
    /\ UNCHANGED << submission, outcome >>
    /\ UNCHANGED canonVars
    /\ UNCHANGED mergeVars
    /\ UNCHANGED pipelineVars
    /\ UNCHANGED moderateVars
    /\ UNCHANGED persistVars
    /\ UNCHANGED feedbackVars

ValidateNext == ValidateSubmission \/ VerifyHash

SpecValidate == ValidateInit /\ [][ValidateNext]_vars

\* ------------------------------------------------------------------------
\* SpecCanon: the canonical form and digest of a record before and after an
\* edit of it
\* ------------------------------------------------------------------------
CanonInit ==
    /\ orig \in CanonInputs
    /\ session = orig
    /\ edit = "none"
    /\ canon = Pending
    /\ ValidateIdle
    /\ MergeIdle
    /\ PipelineIdle
    /\ ModerateIdle
    /\ PersistIdle
    /\ FeedbackIdle

\* The record with stats, the top-level duration, the words' spawnTime and the
\* keystrokes' duration (all outside the canonical form) replaced
MutateOutside ==
    /\ edit = "none"
    /\ \E stats \in {BaseStats, Absent, Stats(PInt(300), PInt(100)), Stats(PInt(120), PInt(50)),
                     Stats(PInt(7), PInt(95))},
          duration \in {Absent, PInt(60)},
          spawnTime \in {"same", "reset"},
          strokeDuration \in {"same", "reset"} :
          LET words == Get(orig, "words")
              newWords == IF spawnTime = "same" THEN words
                          ELSE PList([i \in 1..Len(words.v) |->
                                   PDict([words.v[i].d EXCEPT !.spawnTime = PInt(9)])])
              keystrokes == Get(orig, "keystrokes")
              newKeystrokes == IF strokeDuration = "same" THEN keystrokes
                               ELSE PList([i \in 1..Len(keystrokes.v) |->
                                        PDict([keystrokes.v[i].d EXCEPT !.duration = PInt(9)])])
              new == PDict([orig.d EXCEPT !.stats = stats, !.duration = duration,
                                          !.words = newWords, !.keystrokes = newKeystrokes])
          IN  /\ new # orig
              /\ session' = new
    /\ edit' = "outside"
    /\ UNCHANGED << orig, canon >>
    /\ UNCHANGED validateVars
    /\ UNCHANGED mergeVars
    /\ UNCHANGED pipelineVars
    /\ UNCHANGED moderateVars
    /\ UNCHANGED persistVars
    /\ UNCHANGED feedbackVars

\* The record with its words in another order
PermuteWords ==
    /\ edit = "none"
    /\ \E p \in Orderings(Len(Get(orig, "words").v)) :
          /\ \E i \in DOMAIN p : p[i] # i
          /\ session' = PDict([orig.d EXCEPT !.words = PList(Permuted(@.v, p))])
    /\ edit' = "words"
    /\ UNCHANGED << orig, canon >>
    /\ UNCHANGED validateVars
    /\ UNCHANGED mergeVars
    /\ UNCHANGED pipelineVars
    /\ UNCHANGED moderateVars
    /\ UNCHANGED persistVars
    /\ UNCHANGED feedbackVars

\* The record with its keystrokes in another order
PermuteKeystrokes ==
    /\ edit = "none"
    /\ \E p \in Orderings(Len(Get(orig, "keystrokes").v)) :
          /\ \E i \in DOMAIN p : p[i] # i
          /\ session' = PDict([orig.d EXCEPT !.keystrokes = PList(Permuted(@.v, p))])
    /\ edit' = "keystrokes"
    /\ UNCHANGED << orig, canon >>
    /\ UNCHANGED validateVars
    /\ UNCHANGED mergeVars
    /\ UNCHANGED pipelineVars
    /\ UNCHANGED moderateVars
    /\ UNCHANGED persistVars
    /\ UNCHANGED feedbackVars

CanonOf(x) == [form |-> extract_deterministic_data(x), digest |-> calculate_hash(x)]

\* extract_deterministic_data and calculate_hash on both records
Canonicalize ==
    /\ edit # "none"
    /\ ~canon.done
    /\ canon' = Done([before |-> CanonOf(orig), after |-> CanonOf(session)])
    /\ UNCHANGED << orig, session, edit >>
    /\ UNCHANGED validateVars
    /\ UNCHANGED mergeVars
    /\ UNCHANGED pipelineVars
    /\ UNCHANGED moderateVars
    /\ UNCHANGED persistVars
    /\ UNCHANGED feedbackVars

CanonNext == MutateOutside \/ PermuteWords \/ PermuteKeystrokes \/ Canonicalize

SpecCanon == CanonInit /\ [][CanonNext]_vars

\* ------------------------------------------------------------------------
\* SpecMerge: generate_leaderboard applied again and again to the file it
\* wrote, starting from no file, with any incoming scores and any max_scores,
\* and moderation deletes in between
\* ------------------------------------------------------------------------
MaxIncoming == 2
MaxScores == 2

\* A score entry as process_score_submissions builds it
ScoreEntry(hash, wpm, timestamp, votes) ==
    PDict([sessionHash |-> PStr(hash), userId |-> BaseUserId, initials |-> BaseInitials,
           wpm |-> wpm, accuracy |-> PInt(95), stage |-> PInt(3),
           timestamp |-> PInt(timestamp),
           votes |-> votes,
           replayUrl |-> PStr(hash), rank |-> Absent])

\* Entries with equal keys, with equal hashes, with int and float wpm, flagged
\* and not
EntryPool ==
    { ScoreEntry(<<97>>, PInt(120), 10, Flagged), ScoreEntry(<<98>>, PInt(120), 10, NoVotes),
      ScoreEntry(<<99>>, PInt(200), 20, NoVotes), ScoreEntry(<<97>>, PInt(90), 5, Flagged),
      ScoreEntry(<<100>>, PFloat(120), 5, NoVotes) }

MergeInit ==
    /\ board = Missing
    /\ merge = Pending
    /\ ValidateIdle
    /\ CanonIdle
    /\ PipelineIdle
    /\ ModerateIdle
    /\ PersistIdle
    /\ FeedbackIdle

\* What a call of generate_leaderboard was given and what it returned
Call(scores, max_scores) ==
    [existing |-> load_json_safe(board, PDict([scores |-> PList(<<>>)])),
     scores |-> scores,
     max_scores |-> max_scores,
     leaderboard |-> generate_leaderboard(scores, board, max_scores, Now)]

\* leaderboard = generate_leaderboard(scores, max_scores=N), then the write;
\* taken on no file and on the file the first call wrote
Merge ==
    /\ merge.done => Len(Get(merge.r.existing, "scores").v) = 0
    /\ \E scores \in SeqsUpTo(EntryPool, MaxIncoming), max_scores \in 0..MaxScores :
          /\ merge' = Done(Call(scores, max_scores))
          /\ board' = IF merge'.r.leaderboard.exc THEN board ELSE merge'.r.leaderboard.val
    /\ UNCHANGED validateVars
    /\ UNCHANGED canonVars
    /\ UNCHANGED pipelineVars
    /\ UNCHANGED moderateVars
    /\ UNCHANGED persistVars
    /\ UNCHANGED feedbackVars

\* generate_leaderboard([]) on the file the last call wrote, max_scores as before
Regenerate ==
    /\ merge.done
    /\ merge' = Done(Call(<<>>, merge.r.max_scores))
    /\ board' = IF merge'.r.leaderboard.exc THEN board ELSE merge'.r.leaderboard.val
    /\ UNCHANGED validateVars
    /\ UNCHANGED canonVars
    /\ UNCHANGED pipelineVars
    /\ UNCHANGED moderateVars
    /\ UNCHANGED persistVars
    /\ UNCHANGED feedbackVars

\* batch_delete_flagged(leaderboard, threshold, auto_save=True), confirmed, on
\* the file the last call wrote
Delete ==
    /\ merge.done
    /\ \E flag_threshold \in {BatchThreshold, 0} :
          LET result == batch_delete_flagged(load_leaderboard(board), flag_threshold, Yes)
          IN  /\ result.deleted > 0
              /\ board' = save_leaderboard(result.leaderboard)
    /\ UNCHANGED merge
    /\ UNCHANGED validateVars
    /\ UNCHANGED canonVars
    /\ UNCHANGED pipelineVars
    /\ UNCHANGED moderateVars
    /\ UNCHANGED persistVars
    /\ UNCHANGED feedbackVars

MergeNext == Merge \/ Regenerate \/ Delete

SpecMerge == MergeInit /\ [][MergeNext]_vars

\* ------------------------------------------------------------------------
\* SpecModerate: the functions of moderate_scores.py applied to a leaderboard
\* as the batch job writes it
\* ------------------------------------------------------------------------
MaxEntries == 3

\* Entries with hashes that differ only in letter case, with ties in the sort
\* key, with flags below, at and above both default thresholds
ModerationPool ==
    { ScoreEntry(<<97>>, PInt(120), 10, PDict([up |-> PInt(1), flags |-> PInt(BatchThreshold)])),
      ScoreEntry(<<65>>, PInt(120), 10, PDict([up |-> PInt(0), flags |-> PInt(InteractiveThreshold)])),
      ScoreEntry(<<98>>, PInt(200), 20, NoVotes),
      ScoreEntry(<<99>>, PInt(90), 5, PDict([up |-> PInt(4), flags |-> PInt(InteractiveThreshold - 1)])),
      ScoreEntry(<<100>>, PFloat(120), 5, PDict([up |-> PInt(0), flags |-> PInt(BatchThreshold + 2)])) }

\* Hashes a moderator may name: those of the pool and one no entry has
ModerationHashes == { Get(e, "sessionHash") : e \in ModerationPool } \cup {PStr(<<122>>)}

\* Lines typed at the confirmation prompt
Answers == { Yes, <<89, 69, 83>>, <<32, 121, 101, 115, 10>>, <<110, 111>>, <<121>>, <<>> }

ModerateInit ==
    /\ moderated \in { generate_leaderboard(scores, Missing, MaxEntries, Now).val :
                           scores \in SeqsUpTo(ModerationPool, MaxEntries) }
    /\ moderation = Pending
    /\ ValidateIdle
    /\ CanonIdle
    /\ MergeIdle
    /\ PipelineIdle
    /\ PersistIdle
    /\ FeedbackIdle

\* flagged = list_flagged_scores(leaderboard, flag_threshold)
ListFlagged ==
    /\ \E flag_threshold \in 0..(BatchThreshold + 3) :
          moderation' = Done([op |-> "list", before |-> moderated,
                              flag_threshold |-> flag_threshold,
                              flagged |-> list_flagged_scores(moderated, flag_threshold)])
    /\ UNCHANGED moderated
    /\ UNCHANGED validateVars
    /\ UNCHANGED canonVars
    /\ UNCHANGED mergeVars
    /\ UNCHANGED pipelineVars
    /\ UNCHANGED persistVars
    /\ UNCHANGED feedbackVars

\* delete_score_by_hash(leaderboard, session_hash)
DeleteByHash ==
    /\ \E session_hash \in ModerationHashes :
          /\ moderation' = Done([op |-> "delete", before |-> moderated,
                                 session_hash |-> session_hash,
                                 returned |-> score_deleted(moderated, session_hash)])
          /\ moderated' = delete_score_by_hash(moderated, session_hash)
    /\ UNCHANGED validateVars
    /\ UNCHANGED canonVars
    /\ UNCHANGED mergeVars
    /\ UNCHANGED pipelineVars
    /\ UNCHANGED persistVars
    /\ UNCHANGED feedbackVars

\* batch_delete_flagged(leaderboard, flag_threshold) with the answer typed
BatchDeleteFlagged ==
    /\ \E flag_threshold \in 0..(BatchThreshold + 3), answer \in Answers :
          LET result == batch_delete_flagged(moderated, flag_threshold, answer)
          IN  /\ moderation' = Done([op |-> "batch", before |-> moderated,
                                     flag_threshold |-> flag_threshold,
                                     answer |-> answer,
                                     returned |-> result.deleted])
              /\ moderated' = result.leaderboard
    /\ UNCHANGED validateVars
    /\ UNCHANGED canonVars
    /\ UNCHANGED mergeVars
    /\ UNCHANGED pipelineVars
    /\ UNCHANGED persistVars
    /\ UNCHANGED feedbackVars

ModerateNext == ListFlagged \/ DeleteByHash \/ BatchDeleteFlagged

SpecModerate == ModerateInit /\ [][ModerateNext]_vars

\* ------------------------------------------------------------------------
\* SpecSession: the interactive sessions of moderate_scores.py (main without
\* an option, lines 353-356) on a leaderboard as the batch job writes it.  A
\* session stands at one of its prompts (choice, hash, confirm, threshold)
\* until a line is typed; moderation.r holds the leaderboard loaded, the
\* threshold in effect, the scores listed with it and the lines typed last
\* ------------------------------------------------------------------------
\* Lines typed at the prompts: the options, thresholds, hashes of the pool
\* and one no entry has, cancel, answers, and lines that are none of these
Lines ==
    { <<49>>, <<50>>, <<51>>, <<32, 49, 32>>, <<55>>, <<48>>, <<45, 49>>, <<43, 53>>,
      <<49, 95, 48>>, <<120>>, <<>>,
      <<97>>, <<65>>, <<99>>, <<100>>, <<122>>,
      Cancel, <<67, 97, 110, 99, 101, 108>>,
      Yes, <<89, 69, 83>>, <<32, 121, 101, 115, 32>>, <<110, 111>>, <<121>> }

InSession == ~moderation.done /\ moderation # Pending

Prompting(pc) == InSession /\ moderation.r.pc = pc

\* The session after a step that left it at prompt pc or returned
SessionAt(r, pc) == [done |-> pc = "return", r |-> [r EXCEPT !.pc = pc]]

\* main, lines 353-356: load_leaderboard, then interactive_moderation with
\* its default threshold
StartSession ==
    /\ ~InSession
    /\ LET entered == interactive_moderation(moderated, InteractiveThreshold)
       IN  moderation' = SessionAt([op |-> "session", before |-> moderated, pc |-> "start",
                                    flag_threshold |-> entered.flag_threshold,
                                    flagged |-> entered.flagged,
                                    choice |-> Null, session_hash |-> Null,
                                    confirm |-> Null, new_threshold |-> Null,
                                    saved |-> FALSE],
                                   entered.pc)
    /\ UNCHANGED moderated
    /\ UNCHANGED validateVars
    /\ UNCHANGED canonVars
    /\ UNCHANGED mergeVars
    /\ UNCHANGED pipelineVars
    /\ UNCHANGED persistVars
    /\ UNCHANGED feedbackVars

\* lines 204-206, 246, 259: the choice typed
EnterChoice ==
    /\ Prompting("choice")
    /\ \E line \in Lines :
          LET choice == strip(line)
          IN  moderation' = SessionAt([moderation.r EXCEPT !.choice = PStr(line)],
                                      IF choice = <<49>> THEN "hash"
                                      ELSE IF choice = <<50>> THEN "threshold"
                                      ELSE "return")
    /\ UNCHANGED moderated
    /\ UNCHANGED validateVars
    /\ UNCHANGED canonVars
    /\ UNCHANGED mergeVars
    /\ UNCHANGED pipelineVars
    /\ UNCHANGED persistVars
    /\ UNCHANGED feedbackVars

\* lines 207-221: the hash typed, or 'cancel'
EnterHash ==
    /\ Prompting("hash")
    /\ \E line \in Lines :
          LET session_hash == strip(line)
          IN  moderation' = SessionAt([moderation.r EXCEPT !.session_hash = PStr(line)],
                                      IF Lower(session_hash) = Cancel THEN "return"
                                      ELSE IF score_to_delete(moderation.r.flagged, session_hash) = Null
                                      THEN "return"
                                      ELSE "confirm")
    /\ UNCHANGED moderated
    /\ UNCHANGED validateVars
    /\ UNCHANGED canonVars
    /\ UNCHANGED mergeVars
    /\ UNCHANGED pipelineVars
    /\ UNCHANGED persistVars
    /\ UNCHANGED feedbackVars

\* lines 223-244: the answer typed; on 'yes' delete_score_by_hash, then
\* delete_replay_file and save_leaderboard, which sets 'generated' before it
\* opens the file (write_ok: whether the file was written)
Confirm ==
    /\ Prompting("confirm")
    /\ \E line \in Lines, write_ok \in BOOLEAN :
          LET confirm == Lower(strip(line))
              session_hash == PStr(strip(moderation.r.session_hash.s))
              deletes == confirm = Yes /\ score_deleted(moderated, session_hash)
          IN  /\ moderated' = IF deletes
                              THEN save_leaderboard(delete_score_by_hash(moderated, session_hash))
                              ELSE moderated
              /\ moderation' = SessionAt([moderation.r EXCEPT !.confirm = PStr(line),
                                                              !.saved = deletes /\ write_ok],
                                         "return")
    /\ UNCHANGED validateVars
    /\ UNCHANGED canonVars
    /\ UNCHANGED mergeVars
    /\ UNCHANGED pipelineVars
    /\ UNCHANGED persistVars
    /\ UNCHANGED feedbackVars

\* lines 246-257: the new threshold typed; a number of at least 1 runs
\* interactive_moderation again with it, on the same leaderboard
EnterThreshold ==
    /\ Prompting("threshold")
    /\ \E line \in Lines :
          LET new_threshold == int(strip(line))
              entered == interactive_moderation(moderated, new_threshold.val)
              typed == [moderation.r EXCEPT !.new_threshold = PStr(line)]
          IN  moderation' =
                  IF new_threshold.exc THEN SessionAt(typed, "return")
                  ELSE IF new_threshold.val < 1 THEN SessionAt(typed, "return")
                  ELSE SessionAt([typed EXCEPT !.flag_threshold = entered.flag_threshold,
                                               !.flagged = entered.flagged],
                                 entered.pc)
    /\ UNCHANGED moderated
    /\ UNCHANGED validateVars
    /\ UNCHANGED canonVars
    /\ UNCHANGED mergeVars
    /\ UNCHANGED pipelineVars
    /\ UNCHANGED persistVars
    /\ UNCHANGED feedbackVars

SessionNext == StartSession \/ EnterChoice \/ EnterHash \/ Confirm \/ EnterThreshold

SpecSession == ModerateInit /\ [][SessionNext]_vars

\* ------------------------------------------------------------------------
\* SpecPersist: the writes of the data files, one file-system step at a time:
\* atomic_write_json as process_queue.main and generate_replay_file call it,
\* and save_leaderboard of the moderation tool.  Every step that the
\* operating system can refuse may fail.
\* ------------------------------------------------------------------------
MaxTemps == 2

\* A file holds a complete document (the value itself), nothing yet (opened
\* for writing), or the beginning of a serialized document
Empty == [t |-> "empty"]
Prefix(data) == [t |-> "prefix", of |-> data]

\* The directory of each data file, and two documents each may be given
Dir == [leaderboard |-> "data", feedback |-> "data", replay |-> "data/replays"]
Documents ==
    [leaderboard |-> { PDict([version |-> PInt(1), generated |-> PInt(Now), scores |-> PList(<<>>)]),
                       PDict([version |-> PInt(1), generated |-> PInt(Now),
                              scores |-> PList(<< PDict([ScoreEntry(<<97>>, PInt(120), 10, NoVotes).d
                                                            EXCEPT !.rank = PInt(1)]) >>)]) },
     feedback |-> { PDict([version |-> PInt(1), generated |-> PInt(Now), items |-> PList(<<>>)]),
                    PDict([version |-> PInt(1), generated |-> PInt(Now),
                           items |-> PList(<< PDict([id |-> StrA, votes |-> PInt(0)]) >>)]) },
     replay |-> { PDict([sessionHash |-> StrA, version |-> PInt(1), votes |-> NoVotes]),
                  PDict([sessionHash |-> StrA, version |-> PInt(1), votes |-> Flagged]) }]

\* The writer between two runs, and at the start of a write of the first
\* file of plan
Idle ==
    [job |-> "none", plan |-> <<>>, pc |-> "idle", data |-> Null, prior |-> Null,
     tmp_name |-> FALSE, tmp |-> Absent, result |-> "none", failed |-> {}, exit_code |-> 0]
Writing(w, plan, pc, data) ==
    [w EXCEPT !.plan = plan, !.pc = pc, !.data = data, !.prior = disk.files[Head(plan)],
              !.tmp_name = FALSE, !.tmp = Absent, !.result = "none"]

\* The defaults the callers of load_json_safe pass for each file
\* (process_queue.py:156, generate_static.py:110, 161)
DefaultDocuments ==
    [leaderboard |-> { PDict([scores |-> PList(<<>>)]),
                       PDict([version |-> PInt(1), scores |-> PList(<<>>)]) },
     feedback |-> { PDict([version |-> PInt(1), items |-> PList(<<>>)]) }]

PersistInit ==
    /\ disk \in { [files |-> [f \in DOMAIN Dir |-> Missing],
                    dirs |-> dirs,
                    temps |-> [d \in {"data", "data/replays"} |-> 0]] :
                      dirs \in { {}, {"data"}, {"data", "data/replays"} } }
    /\ writer = Idle
    /\ loaded = Pending
    /\ ValidateIdle
    /\ CanonIdle
    /\ MergeIdle
    /\ PipelineIdle
    /\ ModerateIdle
    /\ FeedbackIdle

\* process_queue.main starts: a run with one new score (its replay file, then
\* the leaderboard), with new feedback as well, or with new feedback only
StartBatch ==
    /\ writer.pc \in {"idle", "exited", "saved"}
    /\ \A d \in DOMAIN disk.temps : disk.temps[d] < MaxTemps
    /\ \E plan \in { <<"replay", "leaderboard">>, <<"replay", "leaderboard", "feedback">>,
                      <<"feedback">> } :
          \E data \in Documents[Head(plan)] :
              writer' = Writing([Idle EXCEPT !.job = "batch"], plan, "ensure", data)
    /\ UNCHANGED disk
    /\ loaded' = Pending
    /\ UNCHANGED validateVars
    /\ UNCHANGED canonVars
    /\ UNCHANGED mergeVars
    /\ UNCHANGED pipelineVars
    /\ UNCHANGED moderateVars
    /\ UNCHANGED feedbackVars

\* ensure_directory_exists, lines 16-25
EnsureDirectory ==
    /\ writer.pc = "ensure"
    /\ LET directory == Dir[Head(writer.plan)]
       IN  IF directory \in disk.dirs
           THEN /\ writer' = [writer EXCEPT !.pc = "create"]
                /\ UNCHANGED disk
           ELSE \/ /\ disk' = [disk EXCEPT !.dirs = @ \cup {"data", directory}]
                   /\ writer' = [writer EXCEPT !.pc = "create"]
                \/ /\ writer' = [writer EXCEPT !.pc = "except"]
                   /\ UNCHANGED disk
    /\ UNCHANGED loaded
    /\ UNCHANGED validateVars
    /\ UNCHANGED canonVars
    /\ UNCHANGED mergeVars
    /\ UNCHANGED pipelineVars
    /\ UNCHANGED moderateVars
    /\ UNCHANGED feedbackVars

\* tempfile.NamedTemporaryFile(dir=directory, delete=False), lines 43-49
CreateTemp ==
    /\ writer.pc = "create"
    /\ \/ /\ disk' = [disk EXCEPT !.temps[Dir[Head(writer.plan)]] = @ + 1]
          /\ writer' = [writer EXCEPT !.pc = "dump", !.tmp = Empty]
       \/ /\ writer' = [writer EXCEPT !.pc = "except"]
          /\ UNCHANGED disk
    /\ UNCHANGED loaded
    /\ UNCHANGED validateVars
    /\ UNCHANGED canonVars
    /\ UNCHANGED mergeVars
    /\ UNCHANGED pipelineVars
    /\ UNCHANGED moderateVars
    /\ UNCHANGED feedbackVars

\* json.dump(data, tmp_file), tmp_name = tmp_file.name, and the close at the
\* end of the with block, lines 50-51: json.dump may raise after it wrote the
\* beginning (a value that cannot be serialized, a full disk), and then
\* tmp_name is not assigned; the close may raise after it was
Dump ==
    /\ writer.pc = "dump"
    /\ \/ writer' = [writer EXCEPT !.pc = "move", !.tmp = writer.data, !.tmp_name = TRUE]
       \/ \E written \in {Empty, Prefix(writer.data)}, tmp_name \in BOOLEAN :
              writer' = [writer EXCEPT !.pc = "except", !.tmp = written, !.tmp_name = tmp_name]
    /\ UNCHANGED disk
    /\ UNCHANGED loaded
    /\ UNCHANGED validateVars
    /\ UNCHANGED canonVars
    /\ UNCHANGED mergeVars
    /\ UNCHANGED pipelineVars
    /\ UNCHANGED moderateVars
    /\ UNCHANGED feedbackVars

\* shutil.move(tmp_name, filepath), line 54: os.rename; when that raises
\* OSError shutil.move copies the file over the target instead
Move ==
    /\ writer.pc = "move"
    /\ LET file == Head(writer.plan)
       IN  \/ /\ disk' = [disk EXCEPT !.files[file] = writer.tmp, !.temps[Dir[file]] = @ - 1]
              /\ writer' = [writer EXCEPT !.pc = "returned", !.tmp = Absent, !.result = "True"]
           \/ /\ disk' = [disk EXCEPT !.files[file] = Empty]
              /\ writer' = [writer EXCEPT !.pc = "copy"]
           \/ /\ writer' = [writer EXCEPT !.pc = "except"]
              /\ UNCHANGED disk
    /\ UNCHANGED loaded
    /\ UNCHANGED validateVars
    /\ UNCHANGED canonVars
    /\ UNCHANGED mergeVars
    /\ UNCHANGED pipelineVars
    /\ UNCHANGED moderateVars
    /\ UNCHANGED feedbackVars

\* The copy of shutil.move onto the opened target, then os.unlink(tmp_name)
CopyOver ==
    /\ writer.pc = "copy"
    /\ LET file == Head(writer.plan)
       IN  \/ /\ disk' = [disk EXCEPT !.files[file] = writer.tmp, !.temps[Dir[file]] = @ - 1]
              /\ writer' = [writer EXCEPT !.pc = "returned", !.tmp = Absent, !.result = "True"]
           \/ \E written \in {Empty, Prefix(writer.data)} :
                 /\ disk' = [disk EXCEPT !.files[file] = written]
                 /\ writer' = [writer EXCEPT !.pc = "except"]
    /\ UNCHANGED loaded
    /\ UNCHANGED validateVars
    /\ UNCHANGED canonVars
    /\ UNCHANGED mergeVars
    /\ UNCHANGED pipelineVars
    /\ UNCHANGED moderateVars
    /\ UNCHANGED feedbackVars

\* except Exception, lines 57-66: the temp file is removed if tmp_name was
\* assigned (os.remove may fail, which is passed over); return False
Except ==
    /\ writer.pc = "except"
    /\ \/ /\ writer.tmp_name /\ writer.tmp # Absent
          /\ disk' = [disk EXCEPT !.temps[Dir[Head(writer.plan)]] = @ - 1]
          /\ writer' = [writer EXCEPT !.pc = "returned", !.tmp = Absent, !.result = "False"]
       \/ /\ writer' = [writer EXCEPT !.pc = "returned", !.result = "False"]
          /\ UNCHANGED disk
    /\ UNCHANGED loaded
    /\ UNCHANGED validateVars
    /\ UNCHANGED canonVars
    /\ UNCHANGED mergeVars
    /\ UNCHANGED pipelineVars
    /\ UNCHANGED moderateVars
    /\ UNCHANGED feedbackVars

\* The caller of atomic_write_json goes on: process_score_submissions prints a
\* warning when the replay file failed (process_queue.py:216-219) and the run
\* continues; main exits with 1 when leaderboard.json or feedback.json failed
\* (lines 341-346, 361-366), and with 0 at its end
Returned ==
    /\ writer.pc = "returned"
    /\ LET file == Head(writer.plan)
           rest == Tail(writer.plan)
           failed == IF writer.result = "False" THEN writer.failed \cup {file} ELSE writer.failed
       IN  IF file # "replay" /\ writer.result = "False"
           THEN writer' = [writer EXCEPT !.pc = "exited", !.failed = failed, !.exit_code = 1]
           ELSE IF Len(rest) = 0
           THEN writer' = [writer EXCEPT !.pc = "exited", !.failed = failed, !.exit_code = 0]
           ELSE \E data \in Documents[Head(rest)] :
                    writer' = Writing([writer EXCEPT !.failed = failed], rest, "ensure", data)
    /\ UNCHANGED disk
    /\ UNCHANGED loaded
    /\ UNCHANGED validateVars
    /\ UNCHANGED canonVars
    /\ UNCHANGED mergeVars
    /\ UNCHANGED pipelineVars
    /\ UNCHANGED moderateVars
    /\ UNCHANGED feedbackVars

\* The moderation tool saves the leaderboard it loaded and changed:
\* save_leaderboard(data), moderate_scores.py:37-57
StartSave ==
    /\ writer.pc \in {"idle", "exited", "saved"}
    /\ disk.files["leaderboard"].t = "dict"
    /\ \E data \in Documents["leaderboard"] :
          writer' = Writing([Idle EXCEPT !.job = "moderation"], <<"leaderboard">>, "open", data)
    /\ UNCHANGED disk
    /\ loaded' = Pending
    /\ UNCHANGED validateVars
    /\ UNCHANGED canonVars
    /\ UNCHANGED mergeVars
    /\ UNCHANGED pipelineVars
    /\ UNCHANGED moderateVars
    /\ UNCHANGED feedbackVars

\* open(filepath, 'w'), line 51: the file is truncated
OpenTruncate ==
    /\ writer.pc = "open"
    /\ \/ /\ disk' = [disk EXCEPT !.files["leaderboard"] = Empty]
          /\ writer' = [writer EXCEPT !.pc = "write"]
       \/ /\ writer' = [writer EXCEPT !.pc = "saved", !.result = "False"]
          /\ UNCHANGED disk
    /\ UNCHANGED loaded
    /\ UNCHANGED validateVars
    /\ UNCHANGED canonVars
    /\ UNCHANGED mergeVars
    /\ UNCHANGED pipelineVars
    /\ UNCHANGED moderateVars
    /\ UNCHANGED feedbackVars

\* json.dump(data, f) and the close, lines 52-53: the bytes reach the file in
\* one or more writes; a failure leaves what was written so far
WriteOut ==
    /\ writer.pc = "write"
    /\ \/ /\ disk.files["leaderboard"] = Empty
          /\ disk' = [disk EXCEPT !.files["leaderboard"] = Prefix(writer.data)]
          /\ UNCHANGED writer
       \/ /\ disk' = [disk EXCEPT !.files["leaderboard"] = writer.data]
          /\ writer' = [writer EXCEPT !.pc = "saved", !.result = "True"]
       \/ /\ writer' = [writer EXCEPT !.pc = "saved", !.result = "False"]
          /\ UNCHANGED disk
    /\ UNCHANGED loaded
    /\ UNCHANGED validateVars
    /\ UNCHANGED canonVars
    /\ UNCHANGED mergeVars
    /\ UNCHANGED pipelineVars
    /\ UNCHANGED moderateVars
    /\ UNCHANGED feedbackVars

\* A new run of process_queue.main begins: load_json_safe reads
\* leaderboard.json (process_queue.py:156, generate_static.py:110) or
\* feedback.json (generate_static.py:161) as the last writer left it; the
\* file may exist and be unreadable
Load ==
    /\ writer.pc \in {"idle", "exited", "saved"}
    /\ \E f \in {"leaderboard", "feedback"}, readable \in BOOLEAN :
        \E default \in DefaultDocuments[f] :
          LET file == IF readable \/ disk.files[f] = Missing THEN disk.files[f] ELSE Unreadable
          IN  loaded' = Done([file |-> file, default |-> default,
                              returned |-> load_json_safe(file, default)])
    /\ writer' = Idle
    /\ UNCHANGED disk
    /\ UNCHANGED validateVars
    /\ UNCHANGED canonVars
    /\ UNCHANGED mergeVars
    /\ UNCHANGED pipelineVars
    /\ UNCHANGED moderateVars
    /\ UNCHANGED feedbackVars

PersistNext ==
    \/ StartBatch \/ EnsureDirectory \/ CreateTemp \/ Dump \/ Move \/ CopyOver \/ Except
    \/ Returned \/ StartSave \/ OpenTruncate \/ WriteOut \/ Load

SpecPersist == PersistInit /\ [][PersistNext]_vars

\* ------------------------------------------------------------------------
\* SpecFeedback: feedback is queued under feedback: keys, and the second half
\* of process_queue.main (lines 350-366) turns the queue into feedback.json
\* ------------------------------------------------------------------------
MaxFeedback == 2
MaxVotes == 1

\* An entry of feedback.json as an earlier run, an earlier version of the
\* tool or a hand edit left it
ExistingItem(id, feedbackId, type, votes, timestamp) ==
    PDict([id |-> id, feedbackId |-> feedbackId, type |-> type, description |-> StrA,
           userId |-> StrA, timestamp |-> PInt(timestamp), votes |-> PInt(votes),
           status |-> StrOpen, context |-> Absent])
ExistingItems ==
    { ExistingItem(StrA, Absent, StrBug, 0, 1),
      ExistingItem(StrA, StrB, StrBug, 1, 1),
      ExistingItem(Absent, StrA, StrBug, 0, 2),
      ExistingItem(StrB, Absent, StrFeature, 1, 2) }
ExistingFeedback ==
    {Missing} \cup
    { PDict([version |-> PInt(1), generated |-> PInt(0), items |-> PList(items)]) :
        items \in {<<>>} \cup { <<a>> : a \in ExistingItems }
                         \cup { <<a, b>> : a \in ExistingItems, b \in ExistingItems } }

\* What a client may put under a feedback: key
FeedbackSubmission(userId, description, type, feedbackId, timestamp, gameContext) ==
    PDict([userId |-> userId, description |-> description, type |-> type,
           feedbackId |-> feedbackId, timestamp |-> timestamp, status |-> Absent,
           gameContext |-> gameContext])
FeedbackInputs ==
    { FeedbackSubmission(StrA, StrA, StrBug, Absent, PInt(1), Absent),
      FeedbackSubmission(StrA, StrA, Absent, Absent, PInt(1), Absent),
      FeedbackSubmission(StrA, StrA, StrPraise, Absent, PInt(2), Absent),
      FeedbackSubmission(StrA, StrA, StrFeature, StrA, PInt(2), Absent),
      FeedbackSubmission(StrA, StrA, StrFeature, Null, PInt(1), Absent),
      FeedbackSubmission(Absent, StrA, StrBug, Absent, PInt(1), Absent),
      FeedbackSubmission(StrA, PStr(<<>>), StrBug, Absent, PInt(1), Absent),
      FeedbackSubmission(StrA, StrA, StrBug, Absent, Null, Absent),
      FeedbackSubmission(StrA, StrA, StrBug, Absent, Absent, Absent),
      FeedbackSubmission(StrA, StrA, StrBug, Absent, PInt(1), PDict([stage |-> PInt(1)])),
      FeedbackSubmission(StrA, StrA, StrBug, Absent, PInt(1), PInt(1)) }

\* The keys feedback:a and feedback:b, and the ids a feedback object can get
FeedbackKeys == { <<102, 58, 97>>, <<102, 58, 98>> }
FeedbackIds == { StrA, StrB, Null }

FeedbackInit ==
    /\ feedback_json \in ExistingFeedback
    /\ feedback_queue = <<>>
    /\ feedback_received = 0
    /\ feedback_run = Pending
    /\ ValidateIdle
    /\ CanonIdle
    /\ MergeIdle
    /\ PipelineIdle
    /\ ModerateIdle
    /\ PersistIdle

\* A client's feedback reaches the key-value store
SubmitFeedback ==
    /\ feedback_received < MaxFeedback
    /\ \E key \in FeedbackKeys, value \in FeedbackInputs :
          /\ \A i \in 1..Len(feedback_queue) : feedback_queue[i].key # key
          /\ feedback_queue' = Append(feedback_queue, [key |-> key, value |-> value])
    /\ feedback_received' = feedback_received + 1
    /\ feedback_run' = Pending
    /\ UNCHANGED feedback_json
    /\ UNCHANGED validateVars
    /\ UNCHANGED canonVars
    /\ UNCHANGED mergeVars
    /\ UNCHANGED pipelineVars
    /\ UNCHANGED moderateVars
    /\ UNCHANGED persistVars

\* process_queue.main, lines 350-366 and the handler of lines 375-379: the
\* feedback items are fetched and processed, their keys deleted, and
\* feedback.json is generated and written when there is new feedback or no
\* file; the write may fail
ProcessFeedback ==
    /\ \E vote_counts \in [FeedbackIds -> 0..MaxVotes], written \in BOOLEAN :
          LET feedback_items == feedback_queue
              processed == IF Len(feedback_items) = 0
                           THEN Ok([valid_feedback |-> <<>>, processed_keys |-> <<>>])
                           ELSE process_feedback_submissions(feedback_items, vote_counts, Now)
              new_feedback == IF processed.exc THEN <<>> ELSE processed.val.valid_feedback
              generates == ~processed.exc /\ (Len(new_feedback) > 0 \/ feedback_json = Missing)
              document == IF generates
                          THEN generate_feedback(new_feedback, feedback_json, Now)
                          ELSE Raise
              saved == generates /\ ~document.exc /\ written
          IN  /\ feedback_queue' =
                    IF processed.exc THEN feedback_queue
                    ELSE FilterSeq(feedback_queue,
                                   [i \in 1..Len(feedback_queue) |->
                                       \A k \in 1..Len(processed.val.processed_keys) :
                                           processed.val.processed_keys[k] # feedback_queue[i].key])
              /\ feedback_json' = IF saved THEN document.val ELSE feedback_json
              /\ feedback_run' = Done([existing |-> feedback_json,
                                       raised |-> processed.exc,
                                       new_feedback |-> new_feedback,
                                       generates |-> generates,
                                       document |-> document,
                                       exit_code |-> IF processed.exc \/ (generates /\ ~saved)
                                                     THEN 1 ELSE 0])
    /\ UNCHANGED feedback_received
    /\ UNCHANGED validateVars
    /\ UNCHANGED canonVars
    /\ UNCHANGED mergeVars
    /\ UNCHANGED pipelineVars
    /\ UNCHANGED moderateVars
    /\ UNCHANGED persistVars

FeedbackNext == SubmitFeedback \/ ProcessFeedback

SpecFeedback == FeedbackInit /\ [][FeedbackNext]_vars

\* ------------------------------------------------------------------------
\* Spec: submissions are queued, batch runs (process_queue.main) process the
\* queue and rewrite the leaderboard, moderation deletes flagged scores
\* ------------------------------------------------------------------------
MaxSubmits == 3

QueuedSession(seed, stats, session_hash) ==
    PDict([seed |-> PInt(seed), stage |-> PInt(3), words |-> BaseWords,
           keystrokes |-> BaseKeystrokes, stats |-> stats, sessionHash |-> session_hash])

Digest(seed) == calculate_hash(QueuedSession(seed, Absent, Absent)).val

QueuedSubmission(session_data, session_hash, timestamp) ==
    PDict([sessionData |-> session_data, sessionHash |-> PStr(session_hash),
           userId |-> BaseUserId, initials |-> BaseInitials,
           timestamp |-> timestamp, type |-> Absent])

\* What clients put in the queue, and the votes the store holds for its hash:
\* a session; the same session with other claimed stats; a session that ties
\* with the first; a faster one; the first with its hash in upper case; a
\* wrong hash; a null wpm; null stats
Catalogue ==
    << [value |-> QueuedSubmission(QueuedSession(1, Stats(PInt(120), PInt(95)), PStr(Digest(1))),
                                   Digest(1), PInt(10)),
        votes |-> Flagged],
       [value |-> QueuedSubmission(QueuedSession(1, Stats(PInt(200), PInt(95)), Absent),
                                   Digest(1), PInt(20)),
        votes |-> Flagged],
       [value |-> QueuedSubmission(QueuedSession(2, Stats(PInt(120), PInt(95)), Absent),
                                   Digest(2), PInt(10)),
        votes |-> NoVotes],
       [value |-> QueuedSubmission(QueuedSession(3, Stats(PFloat(200), PInt(95)), Absent),
                                   Digest(3), PInt(5)),
        votes |-> NoVotes],
       [value |-> QueuedSubmission(QueuedSession(1, Stats(PInt(120), PInt(95)), Absent),
                                   Upper(Digest(1)), PInt(30)),
        votes |-> NoVotes],
       [value |-> QueuedSubmission(QueuedSession(5, Stats(PInt(250), PInt(95)), Absent),
                                   Digest(6), PInt(10)),
        votes |-> NoVotes],
       [value |-> QueuedSubmission(QueuedSession(6, Stats(Null, PInt(95)), Absent),
                                   Digest(6), PInt(10)),
        votes |-> NoVotes],
       [value |-> QueuedSubmission(QueuedSession(7, Null, Absent), Digest(7), PInt(10)),
        votes |-> NoVotes] >>

Elements(s) == { s[i] : i \in 1..Len(s) }

\* kv_client.get_value(key), cloudflare_kv.py:88-100 and 53-66: the value
\* stored under the key, None when the request failed
get_value(item, unavailable) ==
    IF item.key \in unavailable THEN Null ELSE catalogue[item.id].value

\* fetch_queue_items that gives up at the first key without a value
fetch_queue_items_StopAtFailure(listing, unavailable) ==
    LET stop == IF \E i \in 1..Len(listing) : ~Truthy(get_value(listing[i], unavailable))
                THEN CHOOSE i \in 1..Len(listing) :
                        /\ ~Truthy(get_value(listing[i], unavailable))
                        /\ \A k \in 1..(i - 1) : Truthy(get_value(listing[k], unavailable))
                ELSE Len(listing) + 1
    IN  [i \in 1..(stop - 1) |-> [key |-> listing[i].key, value |-> catalogue[listing[i].id].value,
                                  checked |-> catalogue[listing[i].id].checked]]

\* fetch_queue_items, process_queue.py:26-50: the (key, value) pairs of the
\* listed keys that have a value, in the order of the listing.  checked is
\* what validate_submission returns for the value
fetch_queue_items(listing, unavailable) ==
    LET fetched == FilterSeq(listing, [i \in 1..Len(listing) |->
                                          Truthy(get_value(listing[i], unavailable))])
    IN  [i \in 1..Len(fetched) |-> [key |-> fetched[i].key,
                                    value |-> get_value(fetched[i], unavailable),
                                    checked |-> catalogue[fetched[i].id].checked]]

\* fetch_vote_counts, lines 80-114: the votes stored for each of the hashes
fetch_vote_counts(session_hashes) ==
    [h \in session_hashes |->
        (CHOOSE c \in Elements(catalogue) : Get(c.value, "sessionHash") = h).votes]

\* The scores of the leaderboard file as load_leaderboard returns them
Scores(file) == GetDefault(load_leaderboard(file), "scores", PList(<<>>)).v

PipelineInit ==
    /\ default_max_scores \in 1..MaxScores
    /\ catalogue = [id \in DOMAIN Catalogue |->
                       [value |-> Catalogue[id].value,
                        checked |-> validate_submission(Catalogue[id].value),
                        votes |-> Catalogue[id].votes]]
    /\ queue = <<>>
    /\ submitted = 0
    /\ leaderboard = Missing
    /\ replays = {}
    /\ last = [op |-> "none"]
    /\ ValidateIdle
    /\ CanonIdle
    /\ MergeIdle
    /\ ModerateIdle
    /\ PersistIdle
    /\ FeedbackIdle

\* A client's submission reaches the queue
Submit ==
    /\ submitted < MaxSubmits
    /\ \E id \in DOMAIN catalogue :
          queue' = Append(queue, [key |-> submitted + 1, id |-> id])
    /\ submitted' = submitted + 1
    /\ last' = [op |-> "none"]
    /\ UNCHANGED << default_max_scores, catalogue, leaderboard, replays >>
    /\ UNCHANGED validateVars
    /\ UNCHANGED canonVars
    /\ UNCHANGED mergeVars
    /\ UNCHANGED moderateVars
    /\ UNCHANGED persistVars
    /\ UNCHANGED feedbackVars

\* main that fetches the vote counts of every entry it writes, not only of
\* the entries newly accepted in the run
main_RefreshVotes(write_ok, unavailable) ==
    LET queue_items == fetch_queue_items(queue, unavailable)
        looped == process_items(queue_items,
                      { Scores(leaderboard)[i].d.sessionHash : i \in 1..Len(Scores(leaderboard)) },
                      replays, Now)
        accepted == { looped.valid_scores[i].d.sessionHash : i \in 1..Len(looped.valid_scores) }
    IN
        LET votes == fetch_vote_counts(accepted)
            processed == process_score_submissions(queue_items, leaderboard, replays, votes, Now)
            new_scores == processed.valid_scores
            generated == generate_leaderboard(new_scores, leaderboard, default_max_scores, Now)
            wrote == /\ ~processed.exc
                     /\ Len(new_scores) > 0 \/ leaderboard = Missing
                     /\ ~generated.exc
                     /\ write_ok
            scores == Get(generated.val, "scores").v
            refreshed == PDict([generated.val.d EXCEPT !.scores =
                            PList([i \in 1..Len(scores) |->
                                PDict([scores[i].d EXCEPT !.votes =
                                    fetch_vote_counts({scores[i].d.sessionHash})[
                                        scores[i].d.sessionHash]])])])
            after == IF wrote THEN refreshed ELSE leaderboard
            valid == FilterSeq(queue_items, [i \in 1..Len(queue_items) |->
                        /\ Has(queue_items[i].value, "sessionData")
                        /\ queue_items[i].checked.val.valid])
        IN  /\ replays' = processed.replay_files
            /\ leaderboard' = after
            /\ queue' = IF processed.exc THEN queue
                        ELSE FilterSeq(queue, [i \in 1..Len(queue) |->
                                queue[i].key \notin Elements(processed.processed_keys)])
            /\ last' = [op |-> "run", before |-> Scores(leaderboard),
                         records |-> [i \in 1..Len(valid) |-> valid[i].value],
                         written |-> wrote,
                         listing |-> queue, unavailable |-> unavailable,
                         raised |-> processed.exc]
    /\ UNCHANGED << default_max_scores, catalogue, submitted >>
    /\ UNCHANGED validateVars
    /\ UNCHANGED canonVars
    /\ UNCHANGED mergeVars
    /\ UNCHANGED moderateVars
    /\ UNCHANGED persistVars
    /\ UNCHANGED feedbackVars

\* process_queue.main, lines 316-349: fetch_queue_items, then
\* process_score_submissions, then generate_leaderboard and atomic_write_json
\* when there are new scores or no file.  write_ok: whether atomic_write_json
\* succeeds; unavailable: the keys whose get_value request fails; delete_key
\* succeeds (a key it fails on is processed again by the next run, as a
\* submission queued again is).
main(write_ok, unavailable) ==
    LET queue_items == fetch_queue_items(queue, unavailable)
        looped == process_items(queue_items,
                      { Scores(leaderboard)[i].d.sessionHash : i \in 1..Len(Scores(leaderboard)) },
                      replays, Now)
        accepted == { looped.valid_scores[i].d.sessionHash : i \in 1..Len(looped.valid_scores) }
    IN
        LET votes == fetch_vote_counts(accepted)
            processed == process_score_submissions(queue_items, leaderboard, replays, votes, Now)
            new_scores == processed.valid_scores
            generated == generate_leaderboard(new_scores, leaderboard, default_max_scores, Now)
            wrote == /\ ~processed.exc
                     /\ Len(new_scores) > 0 \/ leaderboard = Missing
                     /\ ~generated.exc
                     /\ write_ok
            after == IF wrote THEN generated.val ELSE leaderboard
            valid == FilterSeq(queue_items, [i \in 1..Len(queue_items) |->
                        /\ Has(queue_items[i].value, "sessionData")
                        /\ queue_items[i].checked.val.valid])
        IN  /\ replays' = processed.replay_files
            /\ leaderboard' = after
            /\ queue' = IF processed.exc THEN queue
                        ELSE FilterSeq(queue, [i \in 1..Len(queue) |->
                                queue[i].key \notin Elements(processed.processed_keys)])
            /\ last' = [op |-> "run", before |-> Scores(leaderboard),
                         records |-> [i \in 1..Len(valid) |-> valid[i].value],
                         written |-> wrote,
                         listing |-> queue, unavailable |-> unavailable,
                         raised |-> processed.exc]
    /\ UNCHANGED << default_max_scores, catalogue, submitted >>
    /\ UNCHANGED validateVars
    /\ UNCHANGED canonVars
    /\ UNCHANGED mergeVars
    /\ UNCHANGED moderateVars
    /\ UNCHANGED persistVars
    /\ UNCHANGED feedbackVars

\* A batch run in which every request to the key-value store succeeds
BatchRun == \E write_ok \in BOOLEAN : main(write_ok, {})

\* A batch run in which the get_value request of one listed key fails
BatchRunFetchFailing ==
    \E write_ok \in BOOLEAN, i \in 1..Len(queue) : main(write_ok, {queue[i].key})

\* interactive_moderation, lines 176-264: one flagged score is chosen and
\* confirmed; delete_score_by_hash, delete_replay_file, save_leaderboard
InteractiveDelete ==
    /\ \E flagged \in Elements(list_flagged_scores(load_leaderboard(leaderboard),
                                                        InteractiveThreshold)) :
          LET session_hash == Get(flagged, "sessionHash")
          IN  /\ score_deleted(load_leaderboard(leaderboard), session_hash)
              /\ leaderboard' = save_leaderboard(
                                    delete_score_by_hash(load_leaderboard(leaderboard), session_hash))
              /\ replays' = replays \ {session_hash}
              /\ last' = [op |-> "delete", before |-> Scores(leaderboard),
                           hashes |-> <<session_hash>>]
    /\ UNCHANGED << default_max_scores, catalogue, queue, submitted >>
    /\ UNCHANGED validateVars
    /\ UNCHANGED canonVars
    /\ UNCHANGED mergeVars
    /\ UNCHANGED moderateVars
    /\ UNCHANGED persistVars
    /\ UNCHANGED feedbackVars

\* batch_delete_flagged(leaderboard, threshold, auto_save=True), lines
\* 267-314, confirmed: every flagged score is deleted, then one save
BatchDelete ==
    /\ \E flag_threshold \in {BatchThreshold, 0} :
          LET flagged == list_flagged_scores(load_leaderboard(leaderboard), flag_threshold)
              result == batch_delete_flagged(load_leaderboard(leaderboard), flag_threshold, Yes)
          IN  /\ result.deleted > 0
              /\ leaderboard' = save_leaderboard(result.leaderboard)
              /\ replays' = replays \ { Get(flagged[i], "sessionHash") : i \in 1..Len(flagged) }
              /\ last' = [op |-> "delete", before |-> Scores(leaderboard),
                           hashes |-> [i \in 1..Len(flagged) |-> Get(flagged[i], "sessionHash")]]
    /\ UNCHANGED << default_max_scores, catalogue, queue, submitted >>
    /\ UNCHANGED validateVars
    /\ UNCHANGED canonVars
    /\ UNCHANGED mergeVars
    /\ UNCHANGED moderateVars
    /\ UNCHANGED persistVars
    /\ UNCHANGED feedbackVars

Next == Submit \/ BatchRun \/ InteractiveDelete \/ BatchDelete

Spec == PipelineInit /\ [][Next]_vars

\* SpecFetch: the queue and its batch runs when single requests to the
\* key-value store fail
FetchNext == Submit \/ BatchRun \/ BatchRunFetchFailing

SpecFetch == PipelineInit /\ [][FetchNext]_vars

\* SpecVotes: the queue and its batch runs while clients go on voting.  A
\* vote is a vote:<hash>:<user> key in the store (process_queue.py:95), so the
\* counts that fetch_vote_counts returns for a hash grow after the entry with
\* that hash was written; here the score of one persisted entry that had no
\* votes is flagged
Vote ==
    /\ \E i \in 1..Len(Scores(leaderboard)) :
          LET h == Get(Scores(leaderboard)[i], "sessionHash")
          IN  /\ fetch_vote_counts({h})[h] = NoVotes
              /\ catalogue' = [id \in DOMAIN catalogue |->
                                  IF Get(catalogue[id].value, "sessionHash") = h
                                  THEN [catalogue[id] EXCEPT !.votes = Flagged]
                                  ELSE catalogue[id]]
    /\ last' = [op |-> "vote"]
    /\ UNCHANGED << default_max_scores, queue, submitted, leaderboard, replays >>
    /\ UNCHANGED validateVars
    /\ UNCHANGED canonVars
    /\ UNCHANGED mergeVars
    /\ UNCHANGED moderateVars
    /\ UNCHANGED persistVars
    /\ UNCHANGED feedbackVars

VotesNext == Submit \/ BatchRun \/ Vote

SpecVotes == PipelineInit /\ [][VotesNext]_vars

\* ------------------------------------------------------------------------
\* SpecOverlap: a batch run (process_queue.main) step by step, next to a
\* moderation session of moderate_scores.py on the same data directory.
\* Nothing in either program locks leaderboard.json.  writer is where the
\* batch run is and what it holds in memory, moderated the leaderboard the
\* moderation session has loaded
\* ------------------------------------------------------------------------
RunIdle == [pc |-> "idle"]

NoRun == [op |-> "run", written |-> FALSE, overlapped |-> {}, new_scores |-> <<>>]

OverlapInit ==
    /\ default_max_scores \in 1..MaxScores
    /\ catalogue = [id \in DOMAIN Catalogue |->
                       [value |-> Catalogue[id].value,
                        checked |-> validate_submission(Catalogue[id].value),
                        votes |-> Catalogue[id].votes]]
    /\ queue = <<>>
    /\ submitted = 0
    /\ leaderboard = Missing
    /\ replays = {}
    /\ last = [op |-> "none"]
    /\ moderated = Null
    /\ moderation = Pending
    /\ disk = Null
    /\ loaded = Null
    /\ writer = RunIdle
    /\ ValidateIdle
    /\ CanonIdle
    /\ MergeIdle
    /\ FeedbackIdle

\* process_queue.main, lines 329-338: fetch_queue_items and
\* process_score_submissions, which loads the leaderboard for its duplicate
\* check (line 156), writes the replay files and deletes the keys; then the
\* test whether there is anything to generate
ProcessQueue ==
    /\ writer.pc = "idle"
    /\ LET queue_items == fetch_queue_items(queue, {})
           looped == process_items(queue_items,
                         { Scores(leaderboard)[i].d.sessionHash :
                               i \in 1..Len(Scores(leaderboard)) },
                         replays, Now)
           accepted == { looped.valid_scores[i].d.sessionHash :
                             i \in 1..Len(looped.valid_scores) }
           votes == fetch_vote_counts(accepted)
           processed == process_score_submissions(queue_items, leaderboard, replays, votes, Now)
           new_scores == processed.valid_scores
           generates == ~processed.exc /\ (Len(new_scores) > 0 \/ leaderboard = Missing)
       IN  /\ replays' = processed.replay_files
           /\ queue' = IF processed.exc THEN queue
                       ELSE FilterSeq(queue, [i \in 1..Len(queue) |->
                               queue[i].key \notin Elements(processed.processed_keys)])
           /\ writer' = IF generates
                        THEN [pc |-> "processed", new_scores |-> new_scores,
                              overlapped |-> {}, generated |-> Null]
                        ELSE RunIdle
           /\ last' = IF generates THEN [op |-> "none"] ELSE NoRun
    /\ UNCHANGED << default_max_scores, catalogue, submitted, leaderboard >>
    /\ UNCHANGED << disk, loaded >>
    /\ UNCHANGED validateVars
    /\ UNCHANGED canonVars
    /\ UNCHANGED mergeVars
    /\ UNCHANGED moderateVars
    /\ UNCHANGED feedbackVars

\* line 340: generate_leaderboard(new_scores), which loads the leaderboard
\* again (generate_static.py:110) and merges the new scores into it
GenerateLeaderboard ==
    /\ writer.pc = "processed"
    /\ LET generated == generate_leaderboard(writer.new_scores, leaderboard,
                                             default_max_scores, Now)
       IN  /\ writer' = IF generated.exc THEN RunIdle
                        ELSE [writer EXCEPT !.pc = "generated", !.generated = generated.val]
           /\ last' = IF generated.exc THEN NoRun ELSE [op |-> "none"]
    /\ UNCHANGED << default_max_scores, catalogue, queue, submitted, leaderboard, replays >>
    /\ UNCHANGED << disk, loaded >>
    /\ UNCHANGED validateVars
    /\ UNCHANGED canonVars
    /\ UNCHANGED mergeVars
    /\ UNCHANGED moderateVars
    /\ UNCHANGED feedbackVars

\* lines 342-346: atomic_write_json of what was generated
WriteLeaderboard ==
    /\ writer.pc = "generated"
    /\ \E write_ok \in BOOLEAN :
          /\ leaderboard' = IF write_ok THEN writer.generated ELSE leaderboard
          /\ last' = [op |-> "run", written |-> write_ok,
                       overlapped |-> writer.overlapped, new_scores |-> writer.new_scores]
    /\ writer' = RunIdle
    /\ UNCHANGED << default_max_scores, catalogue, queue, submitted, replays >>
    /\ UNCHANGED << disk, loaded >>
    /\ UNCHANGED validateVars
    /\ UNCHANGED canonVars
    /\ UNCHANGED mergeVars
    /\ UNCHANGED moderateVars
    /\ UNCHANGED feedbackVars

\* moderate_scores.main, line 355: load_leaderboard at the start of a
\* session that has something to list
LoadLeaderboard ==
    /\ moderation = Pending
    /\ Len(list_flagged_scores(load_leaderboard(leaderboard), InteractiveThreshold)) > 0
    /\ moderated' = load_leaderboard(leaderboard)
    /\ moderation' = [done |-> FALSE, r |-> [op |-> "overlap"]]
    /\ last' = [op |-> "none"]
    /\ UNCHANGED << default_max_scores, catalogue, queue, submitted, leaderboard, replays >>
    /\ UNCHANGED persistVars
    /\ UNCHANGED validateVars
    /\ UNCHANGED canonVars
    /\ UNCHANGED mergeVars
    /\ UNCHANGED feedbackVars

\* interactive_moderation, lines 229-239, after the prompts: a listed score
\* was named and confirmed; delete_score_by_hash on the leaderboard loaded,
\* delete_replay_file, save_leaderboard.  overlapped: the hashes whose removal
\* was saved since the batch run in progress loaded the leaderboard
DeleteAndSave ==
    /\ moderation # Pending
    /\ \E flagged \in Elements(list_flagged_scores(moderated, InteractiveThreshold)) :
          LET session_hash == Get(flagged, "sessionHash")
          IN  /\ leaderboard' = save_leaderboard(delete_score_by_hash(moderated, session_hash))
              /\ replays' = replays \ {session_hash}
              /\ writer' = IF writer.pc \in {"processed", "generated"}
                           THEN [writer EXCEPT !.overlapped = @ \cup {session_hash}]
                           ELSE writer
              /\ last' = [op |-> "delete", hashes |-> <<session_hash>>]
    /\ moderated' = Null
    /\ moderation' = Pending
    /\ UNCHANGED << default_max_scores, catalogue, queue, submitted >>
    /\ UNCHANGED << disk, loaded >>
    /\ UNCHANGED validateVars
    /\ UNCHANGED canonVars
    /\ UNCHANGED mergeVars
    /\ UNCHANGED feedbackVars

OverlapNext ==
    \/ Submit
    \/ ProcessQueue
    \/ GenerateLeaderboard
    \/ WriteLeaderboard
    \/ LoadLeaderboard
    \/ DeleteAndSave

SpecOverlap == OverlapInit /\ [][OverlapNext]_vars

\* ------------------------------------------------------------------------
\* Properties of the validator (SpecValidate)
\* ------------------------------------------------------------------------
Accepted == outcome.done /\ ~outcome.r.exc /\ outcome.r.val.valid
Rejected == outcome.done /\ ~outcome.r.exc /\ ~outcome.r.val.valid

\* C1: validate_submission accepts a submission only if its claimed
\* sessionHash is a string that equals, compared without regard to letter
\* case, calculate_hash of its sessionData.
C1_AcceptedOnlyWithMatchingDigest ==
    Accepted =>
        LET digest == calculate_hash(Get(submission, "sessionData"))
            claimed == Get(submission, "sessionHash")
        IN  /\ ~digest.exc
            /\ claimed.t = "str"
            /\ Lower(claimed.s) = Lower(digest.val)

\* An accepted submission whose claimed hash is not spelled as the digest is
C1_Witness ==
    /\ Accepted
    /\ Get(submission, "sessionHash").s # calculate_hash(Get(submission, "sessionData")).val

\* C2: for every record x that passes validate_session_data,
\* verify_hash(x, calculate_hash(x)) is true, and verify_hash(x, d) is true
\* for no d other than a string spelling that digest up to letter case.
C2_RoundTripOfValidRecords ==
    LET x == Get(submission, "sessionData")
        d == Get(submission, "sessionHash")
        checked == validate_session_data(x)
    IN  (verified.done /\ ~checked.exc /\ checked.val.valid) =>
            /\ ~verified.r.digest.exc
            /\ verify_hash(x, PStr(verified.r.digest.val))
            /\ verified.r.ok <=> (d.t = "str" /\ Lower(d.s) = verified.r.digest.val)

\* C5: the accepted flag of a validation result is true exactly when its list
\* of violations is empty, so every rejection carries at least one violation.
C5_AcceptedIffNoViolations ==
    (outcome.done /\ ~outcome.r.exc) =>
        /\ outcome.r.val.valid <=> (Len(outcome.r.val.errors) = 0)
        /\ ~outcome.r.val.valid => Len(outcome.r.val.errors) >= 1

\* A submission rejected for a missing sessionHash
C5_Witness ==
    /\ Rejected
    /\ ~Truthy(Get(submission, "sessionHash"))
    /\ Len(outcome.r.val.errors) = 1

\* ------------------------------------------------------------------------
\* Properties of the canonicalizer (SpecCanon)
\* ------------------------------------------------------------------------
\* C3: two records that differ only in stats, or in any other field outside
\* seed, stage, words[].text and keystrokes[].key/timestamp/wordIndex, have
\* the same canonical form and the same digest.
C3_OutsideFieldsIgnored ==
    (canon.done /\ edit = "outside") => canon.r.before = canon.r.after

\* Two records with different stats.wpm, canonicalized
C3_Witness ==
    /\ canon.done
    /\ edit = "outside"
    /\ ~canon.r.before.digest.exc
    /\ Get(orig, "stats").t = "dict"
    /\ Get(session, "stats").t = "dict"
    /\ Get(Get(orig, "stats"), "wpm") # Get(Get(session, "stats"), "wpm")

\* C4: permuting the words leaves canonical form and digest
\* unchanged; permuting the keystrokes changes the canonical form whenever the
\* permuted sequence differs from the original at some position.
C4_PermutationSensitivity ==
    canon.done =>
        /\ edit = "words" => canon.r.before = canon.r.after
        /\ (/\ edit = "keystrokes"
            /\ \E i \in 1..Len(Get(orig, "keystrokes").v) :
                  Get(orig, "keystrokes").v[i] # Get(session, "keystrokes").v[i])
           => canon.r.before.form # canon.r.after.form

\* ------------------------------------------------------------------------
\* Properties of generate_leaderboard (SpecMerge)
\* ------------------------------------------------------------------------
Min(a, b) == IF a < b THEN a ELSE b

HashOf(e) == Get(e, "sessionHash")
Unranked(e) == PDict([e.d EXCEPT !.rank = Absent])
DistinctHashes(L) == \A i, j \in 1..Len(L) : i # j => HashOf(L[i]) # HashOf(L[j])

\* a may stand before b: higher wpm, or equal wpm and timestamp not later
Precedes(a, b) ==
    \/ Get(a, "wpm").n > Get(b, "wpm").n
    \/ /\ Get(a, "wpm").n = Get(b, "wpm").n
       /\ Get(a, "timestamp").n <= Get(b, "timestamp").n

\* scores is in the claimed order and position i carries rank i
SortedAndRanked(scores) ==
    /\ \A i \in 1..Len(scores) : Get(scores[i], "rank") = PInt(i)
    /\ \A i, j \in 1..Len(scores) : i < j => Precedes(scores[i], scores[j])

\* C8: for L1 (the existing scores) and L2 (the incoming ones) with all
\* hashes distinct, generate_leaderboard with max_scores = N returns
\* min(|L1| + |L2|, N) entries: entries of the union, none of those left out
\* standing before one that is kept, in (wpm descending, timestamp ascending)
\* order and with ranks 1..min(|L1| + |L2|, N); and it never returns more than
\* N entries, whatever the input.
C8_FirstOfUnion ==
    merge.done =>
        LET L == Get(merge.r.existing, "scores").v \o merge.r.scores
            N == merge.r.max_scores
            out == Get(merge.r.leaderboard.val, "scores").v
        IN  /\ ~merge.r.leaderboard.exc
            /\ Len(out) <= N
            /\ DistinctHashes(L) =>
                  /\ Len(out) = Min(Len(L), N)
                  /\ SortedAndRanked(out)
                  /\ DistinctHashes(out)
                  /\ \A i \in 1..Len(out) : \E k \in 1..Len(L) : Unranked(out[i]) = Unranked(L[k])
                  /\ \A k \in 1..Len(L) :
                        (\A i \in 1..Len(out) : HashOf(out[i]) # HashOf(L[k]))
                        => \A i \in 1..Len(out) : Precedes(out[i], L[k])

\* Existing and incoming scores with distinct hashes, more of them than max_scores
C8_Witness ==
    /\ merge.done
    /\ Len(Get(merge.r.existing, "scores").v) >= 1
    /\ Len(merge.r.scores) >= 1
    /\ DistinctHashes(Get(merge.r.existing, "scores").v \o merge.r.scores)
    /\ Len(Get(merge.r.existing, "scores").v) + Len(merge.r.scores) > merge.r.max_scores
    /\ Len(Get(merge.r.leaderboard.val, "scores").v) = merge.r.max_scores
    /\ merge.r.max_scores >= 2

\* C10: generate_leaderboard applied to its own output S with no incoming
\* scores (and max_scores not below the size of S, as when it is unchanged)
\* returns the scores sequence S itself, entries that tie on (wpm, timestamp)
\* included.
C10_RegenerationIsIdentity ==
    (/\ merge.done
     /\ Len(merge.r.scores) = 0
     /\ Len(Get(merge.r.existing, "scores").v) <= merge.r.max_scores)
    => /\ ~merge.r.leaderboard.exc
       /\ Get(merge.r.leaderboard.val, "scores") = Get(merge.r.existing, "scores")

\* A leaderboard whose first two entries tie on (wpm, timestamp), regenerated
C10_Witness ==
    /\ merge.done
    /\ Len(merge.r.scores) = 0
    /\ Len(Get(merge.r.existing, "scores").v) >= 2
    /\ Len(Get(merge.r.existing, "scores").v) <= merge.r.max_scores
    /\ LET S == Get(merge.r.existing, "scores").v
       IN  Precedes(S[1], S[2]) /\ Precedes(S[2], S[1])

\* C6: starting from no leaderboard, after any sequence of merges of incoming
\* scores and moderation deletes no two persisted entries have the same
\* sessionHash.
C6_HashesUnique == DistinctHashes(Scores(board))

\* Two entries are persisted, one of them with a hash that the last merge was
\* given twice
C6_Witness ==
    /\ merge.done
    /\ Len(Scores(board)) >= 2
    /\ \E i \in 1..Len(Scores(board)) :
          Cardinality({ k \in 1..Len(Get(merge.r.existing, "scores").v \o merge.r.scores) :
                           HashOf((Get(merge.r.existing, "scores").v \o merge.r.scores)[k])
                               = HashOf(Scores(board)[i]) }) >= 2

\* ------------------------------------------------------------------------
\* Properties of the pipeline (Spec)
\* ------------------------------------------------------------------------
Persisted == Scores(leaderboard)

\* C7: the persisted scores are always in (wpm descending, timestamp
\* ascending) order and the entry at position i has rank i.
C7_SortedAndRanked == SortedAndRanked(Persisted)

\* A moderation delete has removed the entry of rank 1 and the entry that had
\* rank 2 is persisted in its place
C7_Witness ==
    /\ last.op = "delete"
    /\ Len(last.before) >= 2
    /\ Len(Persisted) >= 1
    /\ HashOf(last.before[1]) \in Elements(last.hashes)
    /\ Unranked(Persisted[1]) = Unranked(last.before[2])

\* The hashes of the scores before the last run followed by those of the valid
\* submissions it was given, in processing order
SeenHashes ==
    [i \in 1..Len(last.before) |-> HashOf(last.before[i])]
        \o [i \in 1..Len(last.records) |-> HashOf(last.records[i])]

\* The hashes that two score records of the last run carry
SharedHashes ==
    { h \in Elements(SeenHashes) :
         Cardinality({ i \in 1..Len(SeenHashes) : SeenHashes[i] = h }) >= 2 }

\* Where the persisted entries with hash h are
Survivors(h) == { i \in 1..Len(Persisted) : HashOf(Persisted[i]) = h }

\* Entry e is the earlier-seen record with hash h: the existing entry, or the
\* score built from the first submission of the batch that carries h
IsEarlierSeen(e, h) ==
    LET k == CHOOSE i \in 1..Len(SeenHashes) :
                /\ SeenHashes[i] = h
                /\ \A j \in 1..(i - 1) : SeenHashes[j] # h
    IN  IF k <= Len(last.before) THEN Unranked(e) = Unranked(last.before[k])
        ELSE LET built == score_obj(last.records[k - Len(last.before)], Now)
             IN  /\ ~built.exc
                 /\ e = PDict([built.val.d EXCEPT !.votes = fetch_vote_counts({h})[h],
                                                  !.rank = Get(e, "rank")])

\* C9: when two score records of a run (existing entries and submissions of
\* the batch) carry the same sessionHash, exactly one entry with that hash is
\* persisted after the run and it is the earlier-seen one.
C9_ExactlyOneAndTheEarlier ==
    last.op = "run" =>
        \A h \in SharedHashes :
            /\ Cardinality(Survivors(h)) = 1
            /\ \A i \in Survivors(h) : IsEarlierSeen(Persisted[i], h)

\* C9: when two score records of a run carry the same sessionHash, at most
\* one entry with that hash is persisted after the run and it is the
\* earlier-seen one (the existing entry, else the first of the batch); exactly
\* one is persisted if the run's records have no more than max_scores
\* different hashes and the entry was there before or the run wrote the file.
C9_AtMostOneAndTheEarlier ==
    last.op = "run" =>
        \A h \in SharedHashes :
            /\ Cardinality(Survivors(h)) <= 1
            /\ \A i \in Survivors(h) : IsEarlierSeen(Persisted[i], h)
            /\ (/\ Cardinality(Elements(SeenHashes)) <= default_max_scores
                /\ \/ \E i \in 1..Len(last.before) : HashOf(last.before[i]) = h
                   \/ last.written)
               => Cardinality(Survivors(h)) = 1

\* A run that wrote the file was given a submission with the hash of an
\* existing entry, and the existing entry is the one persisted
C9_Witness ==
    /\ last.op = "run"
    /\ last.written
    /\ \E h \in SharedHashes :
          /\ \E i \in 1..Len(last.before) : HashOf(last.before[i]) = h
          /\ Cardinality(Survivors(h)) = 1
          /\ \E i \in 1..Len(last.records) :
                /\ HashOf(last.records[i]) = h
                /\ Get(Get(Get(last.records[i], "sessionData"), "stats"), "wpm")
                      # Get(Persisted[CHOOSE j \in Survivors(h) : TRUE], "wpm")

\* ------------------------------------------------------------------------
\* The validator's rules one by one (SpecValidate)
\* ------------------------------------------------------------------------
\* C21: validate_submission accepts a submission only if its initials are a
\* string of exactly 3 characters, each an uppercase ASCII letter A-Z;
\* initials with a digit, punctuation, a lowercase or a non-ASCII character
\* produce a violation.
C21_InitialsAreThreeAsciiCapitals ==
    Accepted =>
        LET initials == Get(submission, "initials")
        IN  /\ initials.t = "str"
            /\ Len(initials.s) = 3
            /\ \A i \in 1..Len(initials.s) : initials.s[i] >= 65 /\ initials.s[i] <= 90

\* C26: the canonicalizer never fails: for every session record, with words
\* or keystrokes missing, not lists, or lists with elements that are not
\* objects, extract_deterministic_data and calculate_hash return a result.
C26_CanonicalizerNeverFails ==
    verified.done =>
        /\ ~verified.r.digest.exc
        /\ ~extract_deterministic_data(Get(submission, "sessionData")).exc

C29_DigestCheckedOnlyWhenStructurallyValid ==
    (outcome.done /\ ~outcome.r.exc
        /\ Truthy(Get(submission, "sessionData")) /\ Truthy(Get(submission, "sessionHash"))) =>
        LET session_data == Get(submission, "sessionData")
            claimed == Get(submission, "sessionHash")
            structural == validate_session_data(session_data).val
            digest == calculate_hash(session_data)
            wrong == \/ digest.exc
                     \/ claimed.t # "str"
                     \/ Lower(claimed.s) # Lower(digest.val)
            mismatch == "Session hash does not match session data"
                            \in Elements(outcome.r.val.errors)
        IN  /\ ~structural.valid => ~mismatch
            /\ (structural.valid /\ wrong) => mismatch
            /\ (structural.valid /\ ~wrong) => ~mismatch

\* A structurally invalid submission with a wrong hash got no mismatch
\* violation
C29_Witness ==
    /\ outcome.done /\ ~outcome.r.exc
    /\ Truthy(Get(submission, "sessionData"))
    /\ Get(submission, "sessionHash").t = "str" /\ Truthy(Get(submission, "sessionHash"))
    /\ ~calculate_hash(Get(submission, "sessionData")).exc
    /\ Lower(Get(submission, "sessionHash").s)
          # Lower(calculate_hash(Get(submission, "sessionData")).val)
    /\ ~validate_session_data(Get(submission, "sessionData")).val.valid
    /\ "Session hash does not match session data" \notin Elements(outcome.r.val.errors)

\* ------------------------------------------------------------------------
\* Moderation functions (SpecModerate)
\* ------------------------------------------------------------------------
\* The entries of a leaderboard / of a list without their ranks
ScoresOf(data) == GetDefault(data, "scores", PList(<<>>)).v
FlagsOf(e) == Get(Get(e, "votes"), "flags").n

\* C11: delete_score_by_hash on a leaderboard that contains the given hash
\* removes exactly one entry, the one with that hash, and returns true; every
\* other entry remains, in the same relative order, with ranks 1..count.
C11_DeleteRemovesExactlyThatEntry ==
    (moderation.done /\ moderation.r.op = "delete") =>
        LET before == ScoresOf(moderation.r.before)
            after == ScoresOf(moderated)
            h == moderation.r.session_hash
            others == FilterSeq(before, [i \in 1..Len(before) |-> HashOf(before[i]) # h])
        IN  (\E i \in 1..Len(before) : HashOf(before[i]) = h) =>
                /\ moderation.r.returned = TRUE
                /\ Len(after) = Len(before) - 1
                /\ \A i \in 1..Len(after) : HashOf(after[i]) # h
                /\ [i \in 1..Len(after) |-> Unranked(after[i])]
                       = [i \in 1..Len(others) |-> Unranked(others[i])]
                /\ \A i \in 1..Len(after) : Get(after[i], "rank") = PInt(i)

\* Rank 2 of three entries was deleted: the entries of ranks 1 and 3 are now
\* ranks 1 and 2
C11_Witness ==
    /\ moderation.done /\ moderation.r.op = "delete"
    /\ Len(ScoresOf(moderation.r.before)) = 3
    /\ HashOf(ScoresOf(moderation.r.before)[2]) = moderation.r.session_hash
    /\ Len(ScoresOf(moderated)) = 2
    /\ HashOf(ScoresOf(moderated)[2]) = HashOf(ScoresOf(moderation.r.before)[3])

\* C18: batch_delete_flagged deletes nothing, leaves the leaderboard unchanged
\* and returns 0 unless the answer to its prompt is the affirmative 'yes' (as
\* typed: surrounding blanks and letter case do not count); when confirmed it
\* removes exactly the entries whose votes.flags >= threshold and returns the
\* number of entries removed.
C18_BatchDeleteOnlyWhenConfirmed ==
    (moderation.done /\ moderation.r.op = "batch") =>
        LET before == ScoresOf(moderation.r.before)
            after == ScoresOf(moderated)
            kept == FilterSeq(before, [i \in 1..Len(before) |->
                                          FlagsOf(before[i]) < moderation.r.flag_threshold])
            affirmative == moderation.r.answer \in
                               { <<121, 101, 115>>, <<89, 69, 83>>, <<32, 121, 101, 115, 10>> }
        IN  /\ ~affirmative => moderated = moderation.r.before /\ moderation.r.returned = 0
            /\ affirmative =>
                  /\ [i \in 1..Len(after) |-> Unranked(after[i])]
                         = [i \in 1..Len(kept) |-> Unranked(kept[i])]
                  /\ moderation.r.returned = Len(before) - Len(kept)

\* A confirmed batch delete that removed two of three entries
C18_Witness ==
    /\ moderation.done /\ moderation.r.op = "batch"
    /\ moderation.r.answer = <<89, 69, 83>>
    /\ Len(ScoresOf(moderation.r.before)) = 3
    /\ moderation.r.returned = 2
    /\ Len(ScoresOf(moderated)) = 1

\* C19: list_flagged_scores returns, in leaderboard order, one projection for
\* exactly the entries with votes.flags >= threshold (flags equal to the
\* threshold included, one below it not), and leaves the leaderboard and
\* every entry of it unchanged.
C19_ListFlaggedIsPureFilter ==
    (moderation.done /\ moderation.r.op = "list") =>
        LET before == ScoresOf(moderation.r.before)
            flagged == moderation.r.flagged
            expected == FilterSeq(before, [i \in 1..Len(before) |->
                                              FlagsOf(before[i]) >= moderation.r.flag_threshold])
        IN  /\ Len(flagged) = Len(expected)
            /\ \A i \in 1..Len(expected) :
                  /\ \A k \in {"rank", "sessionHash", "userId", "initials", "wpm",
                                "accuracy", "stage"} :
                         Get(flagged[i], k) = Get(expected[i], k)
                  /\ Get(flagged[i], "flags") = PInt(FlagsOf(expected[i]))
                  /\ Get(flagged[i], "upvotes") = Get(Get(expected[i], "votes"), "up")
            /\ moderated = moderation.r.before

\* A listing at the interactive threshold of a leaderboard with an entry at
\* the threshold, listed, and an entry one flag below it, not listed
C19_Witness ==
    /\ moderation.done /\ moderation.r.op = "list"
    /\ moderation.r.flag_threshold = InteractiveThreshold
    /\ \E i \in 1..Len(ScoresOf(moderated)) :
          /\ FlagsOf(ScoresOf(moderated)[i]) = InteractiveThreshold
          /\ \E j \in 1..Len(moderation.r.flagged) :
                Get(moderation.r.flagged[j], "sessionHash") = HashOf(ScoresOf(moderated)[i])
    /\ \E i \in 1..Len(ScoresOf(moderated)) :
          /\ FlagsOf(ScoresOf(moderated)[i]) = InteractiveThreshold - 1
          /\ \A j \in 1..Len(moderation.r.flagged) :
                Get(moderation.r.flagged[j], "sessionHash") # HashOf(ScoresOf(moderated)[i])

\* ------------------------------------------------------------------------
\* Deleted scores, replay files and the queue (Spec)
\* ------------------------------------------------------------------------
\* C12: deleted is terminal: once moderation has deleted the entry with
\* sessionHash h and saved the leaderboard, no later batch run puts an entry
\* with hash h back, even when a submission with hash h is in the queue again.
\* Stated for the batch run that follows the delete.
C12_DeletedIsTerminal ==
    [][(last.op = "delete" /\ last'.op = "run") =>
          \A h \in Elements(last.hashes) :
              \A i \in 1..Len(Scores(leaderboard')) : HashOf(Scores(leaderboard')[i]) # h]_vars

\* C13: after every completed batch run and every completed moderation
\* delete, the names of the replay files are exactly the sessionHash values of
\* the persisted entries: no entry without its file, no file without its
\* entry.
C13_ReplaysMatchEntries ==
    ((last.op = "run" /\ last.written) \/ last.op = "delete") =>
        replays = { HashOf(Scores(leaderboard)[i]) : i \in 1..Len(Scores(leaderboard)) }

\* C14: no rejected item stays in the queue after process_score_submissions:
\* every queue item whose submission validate_submission rejects has been
\* deleted by the end of the run.
C14_RejectedItemsLeaveQueue ==
    last.op = "run" =>
        \A i \in 1..Len(queue) :
            LET checked == catalogue[queue[i].id].checked
            IN  checked.exc \/ checked.val.valid

\* C20: every score entry that process_score_submissions builds from an
\* accepted submission has a numeric wpm in 0..300, a numeric accuracy in
\* 0..100 and a numeric stage of at least 1, whatever accepted shape the
\* sessionData has.
C20_BuiltEntriesInRange ==
    Accepted =>
        LET built == score_obj(submission, Now)
            wpm == Get(built.val, "wpm")
            accuracy == Get(built.val, "accuracy")
            stage == Get(built.val, "stage")
        IN  built.exc \/
               /\ IsNumber(wpm) /\ wpm.n >= 0 /\ wpm.n <= 300
               /\ IsNumber(accuracy) /\ accuracy.n >= 0 /\ accuracy.n <= 100
               /\ IsNumber(stage) /\ stage.n >= 1

\* C27: when get_value fails for one listed queue key, that key is treated as
\* having no value: its submission is neither validated nor deleted in this
\* run, and every other listed key is fetched and processed, in the order of
\* the listing
C27_FailedFetchSkipsOnlyThatKey ==
    last.op = "run" =>
        LET skipped == [i \in 1..Len(last.listing) |-> last.listing[i].key \in last.unavailable]
            others == FilterSeq(last.listing, [i \in 1..Len(last.listing) |-> ~skipped[i]])
            valid == FilterSeq(others, [i \in 1..Len(others) |->
                                           catalogue[others[i].id].checked.val.valid])
        IN  /\ \A i \in 1..Len(last.listing) :
                  skipped[i] => \E k \in 1..Len(queue) : queue[k] = last.listing[i]
            /\ last.records = [i \in 1..Len(valid) |-> catalogue[valid[i].id].value]
            /\ ~last.raised => queue = FilterSeq(last.listing, skipped)

\* A run whose first listed key could not be fetched and that accepted a
\* submission listed after it
C27_Witness ==
    /\ last.op = "run"
    /\ ~last.raised
    /\ Len(last.listing) >= 2
    /\ last.unavailable = {last.listing[1].key}
    /\ Len(last.records) >= 1
    /\ Len(queue) = 1

\* C30: no accepted submission is lost: after every batch run, each queue
\* item that the run deleted and that carried an accepted submission whose
\* hash was not on the leaderboard has an entry in the persisted leaderboard,
\* unless the run wrote a full leaderboard that left it out
C30_NoAcceptedSubmissionLost ==
    last.op = "run" =>
        \A i \in 1..Len(last.listing) :
            LET item == last.listing[i]
                h == HashOf(catalogue[item.id].value)
            IN  (/\ \A k \in 1..Len(queue) : queue[k] # item
                 /\ catalogue[item.id].checked.val.valid
                 /\ \A k \in 1..Len(last.before) : HashOf(last.before[k]) # h) =>
                    \/ \E k \in 1..Len(Persisted) : HashOf(Persisted[k]) = h
                    \/ last.written /\ Len(Persisted) >= default_max_scores

\* The scores a run writes when the listing returns the items of the last
\* run in another order, the leaderboard being as it was before that run
RerunScores(listing) ==
    LET items == fetch_queue_items(listing, {})
        file == PDict([scores |-> PList(last.before)])
        existing_hashes == { HashOf(last.before[i]) : i \in 1..Len(last.before) }
        looped == process_items(items, existing_hashes, {}, Now)
        votes == fetch_vote_counts({ HashOf(looped.valid_scores[i]) :
                                       i \in 1..Len(looped.valid_scores) })
        processed == process_score_submissions(items, file, {}, votes, Now)
        generated == generate_leaderboard(processed.valid_scores, file, default_max_scores, Now)
    IN  IF processed.exc \/ generated.exc THEN Raise
        ELSE Ok(Get(generated.val, "scores").v)

\* The last run wrote the leaderboard from a batch of accepted submissions
\* with pairwise distinct hashes, none of them on the leaderboard before
DistinctNewBatch ==
    /\ last.op = "run" /\ last.written /\ last.unavailable = {}
    /\ Len(last.listing) >= 2
    /\ \A i \in 1..Len(last.listing) :
          /\ catalogue[last.listing[i].id].checked.val.valid
          /\ \A k \in 1..Len(last.before) :
                HashOf(last.before[k]) # HashOf(catalogue[last.listing[i].id].value)
    /\ \A i, j \in 1..Len(last.listing) :
          i # j => HashOf(catalogue[last.listing[i].id].value)
                       # HashOf(catalogue[last.listing[j].id].value)

\* No two entries of the batch have the same wpm and the same timestamp
NoTiesInBatch ==
    \A i, j \in 1..Len(last.listing) :
        i # j => LET a == score_obj(catalogue[last.listing[i].id].value, Now).val
                     b == score_obj(catalogue[last.listing[j].id].value, Now).val
                 IN  KeyLt(a, b) \/ KeyLt(b, a)

DigestOf(e) ==
    LET c == CHOOSE c \in Elements(catalogue) :
                /\ ~c.checked.exc
                /\ c.checked.val.valid
                /\ HashOf(c.value) = HashOf(e)
    IN  calculate_hash(Get(c.value, "sessionData")).val

\* C31: no two persisted entries derive from the same session data: any two
\* entries of the leaderboard have different canonical digests, also when the
\* same sessionData was submitted again with a sessionHash in another letter
\* case
C31_EntriesHaveDistinctDigests ==
    \A i, j \in 1..Len(Persisted) :
        i # j => DigestOf(Persisted[i]) # DigestOf(Persisted[j])

\* C32: for every accepted submission of a completed run whose hash was not
\* on the leaderboard, the replay file named by the replayUrl of its entry
\* (data/replays/<sessionHash>.json, the file delete_replay_file removes)
\* exists after the run
C32_ReplayWrittenAtRecordedPath ==
    (last.op = "run" /\ ~last.raised) =>
        \A i \in 1..Len(last.records) :
            LET built == score_obj(last.records[i], Now)
            IN  (/\ ~built.exc
                 /\ \A k \in 1..Len(last.before) :
                       HashOf(last.before[k]) # HashOf(last.records[i]))
                    => Get(built.val, "replayUrl") \in replays

\* ------------------------------------------------------------------------
\* Entries that were on the leaderboard before a run (SpecVotes)
\* ------------------------------------------------------------------------
\* C33: a batch run changes no field other than rank of an entry that was
\* already persisted: sessionHash, userId, initials, wpm, accuracy, stage,
\* timestamp, replayUrl and votes of every entry that was on the leaderboard
\* before the run and is on it after the run are the same, whatever vote
\* counts the store holds for its hash by then
C33_RunChangesOnlyRankOfExisting ==
    last.op = "run" =>
        \A i \in 1..Len(last.before), j \in 1..Len(Persisted) :
            HashOf(Persisted[j]) = HashOf(last.before[i])
                => Unranked(Persisted[j]) = Unranked(last.before[i])

\* A run wrote the leaderboard with a new entry ahead of an existing one, for
\* whose hash the store by then held other vote counts than the entry: the
\* existing entry is persisted with another rank and its old votes
C33_Witness ==
    /\ last.op = "run"
    /\ last.written
    /\ \E i \in 1..Len(last.before), j \in 1..Len(Persisted) :
          /\ HashOf(Persisted[j]) = HashOf(last.before[i])
          /\ Get(Persisted[j], "rank") # Get(last.before[i], "rank")
          /\ Get(Persisted[j], "votes") = Get(last.before[i], "votes")
          /\ Get(Persisted[j], "votes")
                # fetch_vote_counts({HashOf(Persisted[j])})[HashOf(Persisted[j])]

\* ------------------------------------------------------------------------
\* A moderation delete next to a batch run (SpecOverlap)
\* ------------------------------------------------------------------------
\* C35: a moderation delete is not lost to an overlapping batch run: when
\* moderation saved the removal of entry h after the batch run loaded the
\* leaderboard (for its duplicate check or for the merge) and before the run
\* wrote it, the leaderboard the run writes has no entry h, and it has the
\* entries newly accepted in the run (as far as max_scores admits them)
C35_DeleteSurvivesOverlappingRun ==
    (last.op = "run" /\ last.written) =>
        /\ \A h \in last.overlapped :
              \A i \in 1..Len(Persisted) : HashOf(Persisted[i]) # h
        /\ last.overlapped # {} =>
              \A k \in 1..Len(last.new_scores) :
                  \/ \E i \in 1..Len(Persisted) :
                        HashOf(Persisted[i]) = HashOf(last.new_scores[k])
                  \/ Len(Persisted) >= default_max_scores

\* ------------------------------------------------------------------------
\* Writes of the data files (SpecPersist)
\* ------------------------------------------------------------------------
\* C15: if the write of leaderboard.json, feedback.json or a replay file
\* fails during a batch run, the run ends with a non-zero exit, and the file
\* keeps the contents it had before.
C15_FailedWriteFailsRun ==
    /\ (writer.job = "batch" /\ writer.pc = "returned" /\ writer.result = "False") =>
           disk.files[Head(writer.plan)] = writer.prior
    /\ (writer.job = "batch" /\ writer.pc = "exited" /\ writer.failed # {}) =>
           writer.exit_code # 0

\* C16: whenever atomic_write_json fails, at whatever step, it returns false,
\* the target file keeps its prior contents, and no temporary file remains in
\* the target directory.
C16_FailedAtomicWriteLeavesNoTrace ==
    (writer.job = "batch" /\ writer.pc = "returned" /\ writer.result = "False") =>
        /\ disk.files[Head(writer.plan)] = writer.prior
        /\ writer.tmp = Absent
        /\ disk.temps[Dir[Head(writer.plan)]] = 0

\* C17: at every point of a batch run or a moderation session that writes
\* data/leaderboard.json, a reader of the file finds the complete previous
\* contents or the complete new contents, never an empty or partly written
\* file.
C17_ReaderSeesCompleteFile ==
    /\ disk.files["leaderboard"].t \notin {"empty", "prefix"}
    /\ (writer.job # "none" /\ Len(writer.plan) > 0 /\ Head(writer.plan) = "leaderboard") =>
           disk.files["leaderboard"] \in {writer.prior, writer.data}

\* C25: load_json_safe never raises: it returns the default when the file
\* does not exist or cannot be read or parsed, and the parsed value otherwise
C25_LoadReturnsDefaultOrParsed ==
    loaded.done =>
        LET file == loaded.r.file
        IN  /\ loaded.r.returned # Raise
            /\ IF file.t \in {"missing", "unreadable", "empty", "prefix"}
               THEN loaded.r.returned = loaded.r.default
               ELSE loaded.r.returned = file

\* A read of a file that a failed write left cut short: the default came back
C25_Witness ==
    /\ loaded.done
    /\ loaded.r.file.t = "prefix"
    /\ loaded.r.returned = loaded.r.default

\* ------------------------------------------------------------------------
\* The feedback list (SpecFeedback)
\* ------------------------------------------------------------------------
\* C22: the documents the generators produce pass their own schema checks:
\* validate_leaderboard_schema finds nothing in the leaderboard generated from
\* the scores of process_score_submissions, and validate_feedback_schema
\* finds nothing in the list generated from the feedback objects of
\* process_feedback_submissions (the file that was there passing the check)
C22_GeneratedDocumentsPassSchema ==
    /\ (last # Null /\ last.op = "run" /\ last.written) =>
            Len(validate_leaderboard_schema(leaderboard)) = 0
    /\ (/\ feedback_run.done
        /\ ~feedback_run.r.raised
        /\ feedback_run.r.generates
        /\ \/ feedback_run.r.existing = Missing
           \/ Len(validate_feedback_schema(feedback_run.r.existing)) = 0) =>
            /\ ~feedback_run.r.document.exc
            /\ Len(validate_feedback_schema(feedback_run.r.document.val)) = 0

\* C23: generate_feedback deduplicates existing ++ incoming by id, by
\* feedbackId only where id is absent, keeps the first occurrence of each
\* key, and returns all survivors sorted by votes descending, then timestamp
\* descending
C23_FeedbackDedupById ==
    (feedback_run.done /\ feedback_run.r.generates /\ ~feedback_run.r.document.exc) =>
        LET ClaimedKey(item) == IF Has(item, "id") THEN Get(item, "id")
                                ELSE Get(item, "feedbackId")
            existing == load_json_safe(feedback_run.r.existing,
                                       PDict([items |-> PList(<<>>)]))
            all_items == Get(existing, "items").v \o feedback_run.r.new_feedback
            items == Get(feedback_run.r.document.val, "items").v
        IN  /\ \A i \in 1..Len(items) :
                  \E j \in 1..Len(all_items) :
                      /\ all_items[j] = items[i]
                      /\ \A k \in 1..(j - 1) : ClaimedKey(all_items[k]) # ClaimedKey(items[i])
            /\ \A i, j \in 1..Len(items) : i # j => ClaimedKey(items[i]) # ClaimedKey(items[j])
            /\ \A j \in 1..Len(all_items) :
                  Truthy(ClaimedKey(all_items[j])) =>
                      \E i \in 1..Len(items) : ClaimedKey(items[i]) = ClaimedKey(all_items[j])
            /\ \A i, j \in 1..Len(items) : i < j => ~FeedbackKeyLt(items[j], items[i])

\* ------------------------------------------------------------------------
\* Interactive moderation sessions (SpecSession)
\* ------------------------------------------------------------------------
\* Lines that confirm: 'yes' in any letter case, blanks around it
Affirmative == { <<121, 101, 115>>, <<89, 69, 83>>, <<32, 121, 101, 115, 32>> }

\* C34: an interactive session removes an entry only if its votes.flags is at
\* least the threshold in effect when it was listed (the initial threshold or
\* the one typed at the change-threshold prompt, at least 1), its hash was
\* typed after choice 1 and the answer to the confirmation was yes; it removes
\* at most one entry, changes nothing else but ranks and the generated
\* stamp, and leaves the leaderboard as it was loaded at every prompt and
\* when it returns on cancel, on an unknown hash, on another answer or on exit
C34_SessionRemovesOnlyConfirmedFlagged ==
    (moderation # Pending /\ moderation.r.op = "session") =>
        LET r == moderation.r
            before == ScoresOf(r.before)
            after == ScoresOf(moderated)
            removed == { i \in 1..Len(before) :
                            \A j \in 1..Len(after) : HashOf(after[j]) # HashOf(before[i]) }
            kept == FilterSeq(before, [i \in 1..Len(before) |-> i \notin removed])
        IN  /\ Cardinality(removed) <= 1
            /\ [j \in 1..Len(after) |-> Unranked(after[j])]
                   = [j \in 1..Len(kept) |-> Unranked(kept[j])]
            /\ removed = {} => moderated = r.before /\ ~r.saved
            /\ ~moderation.done => removed = {}
            /\ \A i \in removed :
                  /\ FlagsOf(before[i]) >= r.flag_threshold
                  /\ r.flag_threshold >= 1
                  /\ \/ r.flag_threshold = InteractiveThreshold /\ r.new_threshold = Null
                     \/ r.new_threshold # Null /\ int(r.new_threshold.s) = Ok(r.flag_threshold)
                  /\ r.choice \in { PStr(<<49>>), PStr(<<32, 49, 32>>) }
                  /\ r.session_hash = HashOf(before[i])
                  /\ r.confirm.s \in Affirmative

\* A session in which the threshold was lowered, an entry with fewer flags
\* than the initial threshold was then listed, named and confirmed, and the
\* leaderboard was saved without it
C34_Witness ==
    /\ moderation.done /\ moderation.r.op = "session"
    /\ moderation.r.saved
    /\ moderation.r.flag_threshold < InteractiveThreshold
    /\ Len(ScoresOf(moderated)) = Len(ScoresOf(moderation.r.before)) - 1
    /\ Len(ScoresOf(moderated)) >= 1
    /\ \E i \in 1..Len(ScoresOf(moderation.r.before)) :
          /\ HashOf(ScoresOf(moderation.r.before)[i]) = moderation.r.session_hash
          /\ FlagsOf(ScoresOf(moderation.r.before)[i]) < InteractiveThreshold

====
